---- MODULE Spec2Model ----
(***************************************************************************)
(* Verification model of transformez: the datum registry (definitions.py), *)
(* the grid mosaic engine (grid_engine.py), the HTDP text bridge (htdp.py) *)
(* and the hub-and-spoke vertical transform (transform.py).                *)
(*                                                                         *)
(* Conventions                                                             *)
(*   - a Python str is a sequence of one-character strings;                *)
(*   - Python None is NONE for strings and NoFrame for frame identifiers;  *)
(*   - a float is an exact rational <<num, den>> with den > 0 in lowest    *)
(*     terms; NaN is <<0, 0>>;                                             *)
(*   - a 2-D array is a sequence of rows, each a sequence of cells.        *)
(***************************************************************************)
EXTENDS Integers, Sequences, FiniteSets, TLC

(***************************************************************************)
(* Bounds of the model                                                     *)
(***************************************************************************)
MaxQueryLen == 3

MaxDim == 2

MaxFiles == 2

MaxLines == 3

(***************************************************************************)
(* Python str helpers                                                      *)
(***************************************************************************)
NONE == <<"<None>">>

NoFrame == -1

Digits == <<"0","1","2","3","4","5","6","7","8","9">>

Uppers == <<"A","B","C","D","E","F","G","H","I","J","K","L","M",
            "N","O","P","Q","R","S","T","U","V","W","X","Y","Z">>

Lowers == <<"a","b","c","d","e","f","g","h","i","j","k","l","m",
            "n","o","p","q","r","s","t","u","v","w","x","y","z">>

Range(s) == {s[i] : i \in DOMAIN s}

MinOf(S) == CHOOSE m \in S : \A n \in S : m <= n

MaxOf(S) == CHOOSE m \in S : \A n \in S : m >= n

IndexIn(c, s) == MinOf({i \in DOMAIN s : s[i] = c})

IsDigit(c) == c \in Range(Digits)

DigitVal(c) == IndexIn(c, Digits) - 1

\* str.lower() on one character
LowerChar(c) == IF c \in Range(Uppers) THEN Lowers[IndexIn(c, Uppers)] ELSE c

UpperChar(c) == IF c \in Range(Lowers) THEN Uppers[IndexIn(c, Lowers)] ELSE c

\* str.lower()
LowerStr(s) == [i \in DOMAIN s |-> LowerChar(s[i])]

UpperStr(s) == [i \in DOMAIN s |-> UpperChar(s[i])]

\* Python's  sub in s
Contains(sub, s) ==
  \E i \in 0..(Len(s) - Len(sub)) : SubSeq(s, i + 1, i + Len(sub)) = sub

\* str.strip() for blanks
RECURSIVE LStrip(_)
LStrip(s) == IF s # <<>> /\ Head(s) = " " THEN LStrip(Tail(s)) ELSE s

RECURSIVE RStrip(_)
RStrip(s) ==
  IF s # <<>> /\ s[Len(s)] = " " THEN RStrip(SubSeq(s, 1, Len(s) - 1)) ELSE s

Strip(s) == LStrip(RStrip(s))

\* digits with single underscores between them, as int() accepts
RECURSIVE DigitRun(_, _)
DigitRun(s, acc) ==
  IF s = <<>> THEN [ok |-> TRUE, val |-> acc]
  ELSE IF IsDigit(Head(s)) THEN DigitRun(Tail(s), 10 * acc + DigitVal(Head(s)))
  ELSE IF Head(s) = "_" /\ Len(s) >= 2 /\ IsDigit(s[2]) THEN DigitRun(Tail(s), acc)
  ELSE [ok |-> FALSE, val |-> 0]

\* int(str): blanks stripped, optional sign, then a digit run;
\* ok = FALSE stands for ValueError
UnsignedInt(body) ==
  IF body # <<>> /\ IsDigit(Head(body)) THEN DigitRun(body, 0) ELSE [ok |-> FALSE, val |-> 0]

NegatedInt(parsed_int) == [parsed_int EXCEPT !.val = 0 - parsed_int.val]

SignedInt(t) ==
  IF t # <<>> /\ Head(t) = "-" THEN NegatedInt(UnsignedInt(Tail(t)))
  ELSE IF t # <<>> /\ Head(t) = "+" THEN UnsignedInt(Tail(t))
  ELSE UnsignedInt(t)

ParseInt(s) == SignedInt(Strip(s))

\* str(int) for a non-negative integer
RECURSIVE NatStr(_)
NatStr(n) == IF n < 10 THEN <<Digits[n + 1]>>
             ELSE Append(NatStr(n \div 10), Digits[(n % 10) + 1])

(***************************************************************************)
(* definitions.py: the datum registry                                      *)
(***************************************************************************)
SURFACES ==
  <<
    [epsg |-> 1089, name |-> <<"m","l","l","w">>],
    [epsg |-> 5866, name |-> <<"m","l","l","w">>],
    [epsg |-> 1091, name |-> <<"m","l","w">>],
    [epsg |-> 5869, name |-> <<"m","h","h","w">>],
    [epsg |-> 5868, name |-> <<"m","h","w">>],
    [epsg |-> 5714, name |-> <<"m","s","l">>],
    [epsg |-> 5713, name |-> <<"m","t","l">>],
    [epsg |-> 0, name |-> <<"c","r","d">>],
    [epsg |-> 5609, name |-> <<"I","G","L","D","8","5">>],
    [epsg |-> 9000, name |-> <<"L","W","D","_","I","G","L","D","8","5">>],
    [epsg |-> 5702, name |-> <<"N","G","V","D","2","9">>]
  >>

HTDP ==
  <<
    [epsg |-> 4269, name |-> <<"N","A","D","_","8","3","(","2","0","1","1","/","C","O","R","S","9","6","/","2","0","0","7",")">>],
    [epsg |-> 6781, name |-> <<"N","A","D","_","8","3","(","2","0","1","1","/","C","O","R","S","9","6","/","2","0","0","7",")">>],
    [epsg |-> 6319, name |-> <<"N","A","D","_","8","3","(","2","0","1","1","/","C","O","R","S","9","6","/","2","0","0","7",")">>],
    [epsg |-> 6321, name |-> <<"N","A","D","_","8","3","(","P","A","1","1","/","P","A","C","P","0","0",")">>],
    [epsg |-> 6324, name |-> <<"N","A","D","_","8","3","(","M","A","1","1","/","M","A","R","P","0","0",")">>],
    [epsg |-> 4979, name |-> <<"W","G","S","_","8","4","(","o","r","i","g","i","n","a","l",")">>],
    [epsg |-> 7815, name |-> <<"W","G","S","_","8","4","(","o","r","i","g","i","n","a","l",")">>],
    [epsg |-> 7816, name |-> <<"W","G","S","_","8","4","(","o","r","i","g","i","n","a","l",")">>],
    [epsg |-> 7656, name |-> <<"W","G","S","_","8","4","(","G","7","3","0",")">>],
    [epsg |-> 7657, name |-> <<"W","G","S","_","8","4","(","G","7","3","0",")">>],
    [epsg |-> 7658, name |-> <<"W","G","S","_","8","4","(","G","8","7","3",")">>],
    [epsg |-> 7659, name |-> <<"W","G","S","_","8","4","(","G","8","7","3",")">>],
    [epsg |-> 7660, name |-> <<"W","G","S","_","8","4","(","G","1","1","5","0",")">>],
    [epsg |-> 7661, name |-> <<"W","G","S","_","8","4","(","G","1","1","5","0",")">>],
    [epsg |-> 7662, name |-> <<"W","G","S","_","8","4","(","G","1","6","7","4",")">>],
    [epsg |-> 7663, name |-> <<"W","G","S","_","8","4","(","G","1","6","7","4",")">>],
    [epsg |-> 7664, name |-> <<"W","G","S","_","8","4","(","G","1","7","6","2",")">>],
    [epsg |-> 7665, name |-> <<"W","G","S","_","8","4","(","G","1","7","6","2",")">>],
    [epsg |-> 7666, name |-> <<"W","G","S","_","8","4","(","G","2","1","3","9",")">>],
    [epsg |-> 7667, name |-> <<"W","G","S","_","8","4","(","G","2","1","3","9",")">>],
    [epsg |-> 4910, name |-> <<"I","T","R","F","8","8">>],
    [epsg |-> 4911, name |-> <<"I","T","R","F","8","9">>],
    [epsg |-> 7901, name |-> <<"I","T","R","F","8","9">>],
    [epsg |-> 7902, name |-> <<"I","T","R","F","9","0">>],
    [epsg |-> 7903, name |-> <<"I","T","R","F","9","1">>],
    [epsg |-> 7904, name |-> <<"I","T","R","F","9","2">>],
    [epsg |-> 7905, name |-> <<"I","T","R","F","9","3">>],
    [epsg |-> 7906, name |-> <<"I","T","R","F","9","4">>],
    [epsg |-> 7907, name |-> <<"I","T","R","F","9","6">>],
    [epsg |-> 7908, name |-> <<"I","T","R","F","9","7">>],
    [epsg |-> 7909, name |-> <<"I","T","R","F","2","0","0","0">>],
    [epsg |-> 7910, name |-> <<"I","T","R","F","2","0","0","5">>],
    [epsg |-> 7911, name |-> <<"I","T","R","F","2","0","0","8">>],
    [epsg |-> 7912, name |-> <<"E","L","L","I","P","S","O","I","D">>],
    [epsg |-> 1322, name |-> <<"I","T","R","F","2","0","2","0">>]
  >>

CDN ==
  <<
    [epsg |-> 5703, name |-> <<"N","A","V","D","8","8"," ","h","e","i","g","h","t">>, default_geoid |-> <<"g","2","0","1","8">>],
    [epsg |-> 6360, name |-> <<"N","A","V","D","8","8"," ","h","e","i","g","h","t"," ","(","u","s","F","t",")">>, default_geoid |-> <<"g","2","0","1","8">>],
    [epsg |-> 8228, name |-> <<"N","A","V","D","8","8"," ","h","e","i","g","h","t"," ","(","F","t",")">>, default_geoid |-> <<"g","2","0","1","8">>],
    [epsg |-> 6641, name |-> <<"P","R","V","D","0","2"," ","h","e","i","g","h","t">>, default_geoid |-> <<"g","2","0","1","8">>],
    [epsg |-> 6642, name |-> <<"V","I","V","D","0","9"," ","h","e","i","g","h","t">>, default_geoid |-> <<"g","2","0","1","8">>],
    [epsg |-> 6647, name |-> <<"C","G","V","D","2","0","1","3","(","C","G","G","2","0","1","3",")">>, default_geoid |-> <<"C","G","G","2","0","1","3">>],
    [epsg |-> 3855, name |-> <<"E","G","M","2","0","0","8"," ","h","e","i","g","h","t">>, default_geoid |-> <<"e","g","m","2","0","0","8">>],
    [epsg |-> 5773, name |-> <<"E","G","M","9","6"," ","h","e","i","g","h","t">>, default_geoid |-> <<"e","g","m","9","6">>]
  >>

GEOIDS ==
  <<
    [key |-> <<"g","2","0","1","8">>, provider |-> <<"p","r","o","j">>],
    [key |-> <<"g","2","0","1","2","b">>, provider |-> <<"p","r","o","j">>],
    [key |-> <<"g","e","o","i","d","0","9">>, provider |-> <<"p","r","o","j">>],
    [key |-> <<"x","g","e","o","i","d","2","0","b">>, provider |-> <<"v","d","a","t","u","m">>],
    [key |-> <<"x","g","e","o","i","d","1","9","b">>, provider |-> <<"v","d","a","t","u","m">>],
    [key |-> <<"e","g","m","2","0","0","8">>, provider |-> <<"p","r","o","j">>],
    [key |-> <<"e","g","m","9","6">>, provider |-> <<"p","r","o","j">>],
    [key |-> <<"C","G","G","2","0","1","3">>, provider |-> <<"p","r","o","j">>]
  >>

\* the tables scanned in the opposite order
FrameSetsReversed == <<CDN, HTDP, SURFACES>>

FrameSets == <<SURFACES, HTDP, CDN>>

\* key in dict
HasKey(frame_set, k) == \E i \in DOMAIN frame_set : frame_set[i].epsg = k

\* dict[key]
Entry(frame_set, k) == frame_set[MinOf({i \in DOMAIN frame_set : frame_set[i].epsg = k})]

\* the inner for-loop of get_vdatum_by_name: first entry, in insertion order,
\* whose lowered name contains the lowered input
FirstOf(frame_set, hits) == IF hits = {} THEN NoFrame ELSE frame_set[MinOf(hits)].epsg

NameMatch(frame_set, datum_name) ==
  FirstOf(frame_set, {i \in DOMAIN frame_set :
                        Contains(LowerStr(datum_name), LowerStr(frame_set[i].name))})

\* the outer for-loop of get_vdatum_by_name from table k on: per table, the
\* identifier test and then the name scan
RECURSIVE ResolveFrom(_, _, _)
ResolveFrom(k, datum_int, datum_name) ==
  IF k > Len(FrameSets) THEN NoFrame
  ELSE IF datum_int.ok /\ HasKey(FrameSets[k], datum_int.val) THEN datum_int.val
  ELSE IF NameMatch(FrameSets[k], datum_name) # NoFrame
       THEN NameMatch(FrameSets[k], datum_name)
  ELSE ResolveFrom(k + 1, datum_int, datum_name)

get_vdatum_by_name(datum_name) ==
  IF datum_name = NONE THEN NoFrame
  ELSE ResolveFrom(1, ParseInt(datum_name), datum_name)

get_default_geoid(epsg) ==
  IF epsg # NoFrame /\ HasKey(CDN, epsg) THEN Entry(CDN, epsg).default_geoid
  ELSE NONE

\* a lookup that forgets the orthometric table
get_frame_type_without_cdn(epsg) ==
  IF HasKey(SURFACES, epsg) THEN "surface"
  ELSE IF HasKey(HTDP, epsg) THEN "htdp"
  ELSE "none"

\* a lookup that takes whatever it does not know for an orthometric datum
get_frame_type_default_cdn(epsg) ==
  IF HasKey(SURFACES, epsg) THEN "surface"
  ELSE IF HasKey(HTDP, epsg) THEN "htdp"
  ELSE "cdn"

get_frame_type(epsg) ==
  IF HasKey(SURFACES, epsg) THEN "surface"
  ELSE IF HasKey(HTDP, epsg) THEN "htdp"
  ELSE IF HasKey(CDN, epsg) THEN "cdn"
  ELSE "none"

\* a str() that renders None as the empty string
PyStrEmptyNone(epsg) == IF epsg = NoFrame THEN <<>> ELSE NatStr(epsg)

\* str(epsg) of a resolved frame, "None" for None
PyStr(epsg) == IF epsg = NoFrame THEN <<"N","o","n","e">> ELSE NatStr(epsg)

\* the frame and the category that __init__ keeps
Reresolved(epsg) == [epsg |-> epsg, ref |-> get_frame_type(epsg)]

\* GEOIDS.get(name, {}).get('provider', 'proj')
ProviderOf(hits) == IF hits = {} THEN <<"p","r","o","j">> ELSE GEOIDS[MinOf(hits)].provider

geoid_provider(name) == ProviderOf({i \in DOMAIN GEOIDS : GEOIDS[i].key = name})

(***************************************************************************)
(* Inputs of the registry lookups                                          *)
(***************************************************************************)
AllEntries == UNION {Range(FrameSets[k]) : k \in DOMAIN FrameSets}

\* every substring of a display name up to MaxQueryLen characters, as
\* written, lowered and uppered
NameQueries ==
  LET subs == UNION {{SubSeq(e.name, a, a + l - 1) : a \in 1..(Len(e.name) - l + 1)} :
                       e \in AllEntries, l \in 0..MaxQueryLen}
  IN subs \cup {LowerStr(s) : s \in subs} \cup {UpperStr(s) : s \in subs}

\* every identifier as int() accepts it
IdQueries ==
  LET ids == {NatStr(e.epsg) : e \in AllEntries}
  IN ids \cup {<<" ">> \o s : s \in ids} \cup {s \o <<" ">> : s \in ids}
         \cup {<<"+">> \o s : s \in ids} \cup {<<"0">> \o s : s \in ids}
         \cup {<<"-">> \o s : s \in ids}
         \cup {<<Head(s)>> \o <<"_">> \o Tail(s) : s \in {t \in ids : Len(t) > 1}}

OtherQueries ==
  {NONE, <<"N","o","n","e">>, <<"b","o","g","u","s">>, <<"5","7","0","4">>,
   <<"n","a","v","d","8","8">>, <<"N","A","V","D","8","8"," ","h","e","i","g","h","t">>,
   <<"w","g","s","_","8","4","(","g","1","6","7","4",")">>, <<"2","0","1","1">>,
   <<"_","8","3">>, <<"8","_","3">>, <<"1","e","3">>}

Queries == NameQueries \cup IdQueries \cup OtherQueries

(***************************************************************************)
(* Floats as exact rationals, arrays as sequences of rows                  *)
(***************************************************************************)
NaN == <<0, 0>>

IsNaN(v) == v[2] = 0

Abs(n) == IF n < 0 THEN 0 - n ELSE n

RECURSIVE Gcd(_, _)
Gcd(a, b) == IF b = 0 THEN a ELSE Gcd(b, a % b)

\* n / d in lowest terms with a positive denominator; x / 0 is NaN
Reduce(n, d, g) == IF d < 0 THEN <<(0 - n) \div g, (0 - d) \div g>> ELSE <<n \div g, d \div g>>

Rat(n, d) == IF d = 0 THEN NaN ELSE Reduce(n, d, Gcd(Abs(n), Abs(d)))

Int2Rat(n) == <<n, 1>>

Zero == <<0, 1>>

RatAdd(a, b) ==
  IF IsNaN(a) \/ IsNaN(b) THEN NaN ELSE Rat(a[1] * b[2] + b[1] * a[2], a[2] * b[2])

RatNeg(a) == IF IsNaN(a) THEN NaN ELSE <<0 - a[1], a[2]>>

RatSub(a, b) == RatAdd(a, RatNeg(b))

RatMul(a, b) == IF IsNaN(a) \/ IsNaN(b) THEN NaN ELSE Rat(a[1] * b[1], a[2] * b[2])

RatDiv(a, b) == IF IsNaN(a) \/ IsNaN(b) THEN NaN ELSE Rat(a[1] * b[2], a[2] * b[1])

\* a < b and a <= b; a comparison with NaN is False
RatLt(a, b) == ~IsNaN(a) /\ ~IsNaN(b) /\ a[1] * b[2] < b[1] * a[2]

RatLe(a, b) == ~IsNaN(a) /\ ~IsNaN(b) /\ a[1] * b[2] <= b[1] * a[2]

\* a == b on floats: NaN equals nothing
RatEq(a, b) == ~IsNaN(a) /\ ~IsNaN(b) /\ a = b

\* Python's float %, the result has the sign of the (positive) modulus m
RatMod(a, m) ==
  IF IsNaN(a) THEN NaN ELSE RatSub(a, Int2Rat((a[1] \div (a[2] * m)) * m))

\* largest k in lo..hi with k * k <= n
RECURSIVE ISqrtIn(_, _, _)
ISqrtIn(n, lo, hi) ==
  IF lo >= hi THEN lo
  ELSE LET mid == (lo + hi + 1) \div 2
       IN IF mid * mid <= n THEN ISqrtIn(n, mid, hi) ELSE ISqrtIn(n, lo, mid - 1)

\* sqrt of a natural number, to three decimals
Sqrt(n) == Rat(ISqrtIn(n * 1000000, 0, 1000 * (n + 1)), 1000)

Rows(a) == Len(a)

Cols(a) == IF a = <<>> THEN 0 ELSE Len(a[1])

Cells(a) == {<<r, c>> : r \in 1..Rows(a), c \in 1..Cols(a)}

\* np.zeros((ny, nx)) and np.full((ny, nx), np.nan)
Zeros(ny, nx) == [r \in 1..ny |-> [c \in 1..nx |-> Zero]]

FullNaN(ny, nx) == [r \in 1..ny |-> [c \in 1..nx |-> NaN]]

GridAdd(a, b) == [r \in 1..Rows(a) |-> [c \in 1..Cols(a) |-> RatAdd(a[r][c], b[r][c])]]

\* grid * -1
GridNeg(a) == [r \in 1..Rows(a) |-> [c \in 1..Cols(a) |-> RatNeg(a[r][c])]]

\* a test that does not count NaN as a shift
NpAnyFinite(a) == \E rc \in Cells(a) : a[rc[1]][rc[2]] # Zero /\ ~IsNaN(a[rc[1]][rc[2]])

\* np.any: a cell is truthy unless it is zero (NaN is truthy)
NpAny(a) == \E rc \in Cells(a) : a[rc[1]][rc[2]] # Zero

\* np.flip(a) of an axis, np.flip(data, axis=1), np.flip(data, axis=0)
FlipSeq(s) == [i \in 1..Len(s) |-> s[Len(s) + 1 - i]]

FlipCols(a) == [r \in 1..Rows(a) |-> FlipSeq(a[r])]

FlipRows(a) == FlipSeq(a)

\* np.linspace(a, b, n)
Linspace(a, b, n) ==
  [i \in 1..n |-> IF n = 1 THEN a
                  ELSE RatAdd(a, RatDiv(RatMul(Int2Rat(i - 1), RatSub(b, a)), Int2Rat(n - 1)))]

SeqMin(s) == CHOOSE m \in Range(s) : \A x \in Range(s) : RatLe(m, x)

SeqMax(s) == CHOOSE m \in Range(s) : \A x \in Range(s) : RatLe(x, m)

(***************************************************************************)
(* grid_engine.py: GridEngine                                              *)
(*                                                                         *)
(* A raster file is a record: exists (os.path.exists), readable (whether   *)
(* rasterio opens it), gtx (the name ends in .gtx), left/bottom/right/top  *)
(* (src.bounds), nodata (src.nodata, NaN for None) and data (src.read(1),  *)
(* row 1 the top row).  A region is <<xmin, xmax, ymin, ymax>>.            *)
(***************************************************************************)
GtxNull == Rat(0 - 888888, 10000)

AnyNaN(a) == \E rc \in Cells(a) : IsNaN(a[rc[1]][rc[2]])

AllNaN(a) == \A rc \in Cells(a) : IsNaN(a[rc[1]][rc[2]])

\* squared index distance between two cells
Dist2(p, q) == (p[1] - q[1]) * (p[1] - q[1]) + (p[2] - q[2]) * (p[2] - q[2])

\* the first cell of a set in row-major order
FirstCell(S) == CHOOSE p \in S : \A q \in S : p[1] < q[1] \/ (p[1] = q[1] /\ p[2] <= q[2])

\* the cells of S nearest to rc
NearestOf(S, rc) == {p \in S : \A q \in S : Dist2(rc, p) <= Dist2(rc, q)}

\* distance_transform_edt(mask, return_indices=True) at one masked cell: the
\* nearest unmasked cell (the first in row-major order among the nearest)
NearestValid(data, rc) ==
  FirstCell(NearestOf({q \in Cells(data) : ~IsNaN(data[q[1]][q[2]])}, rc))

\* np.clip(x, 0, 1)
Clip01(x) == IF RatLt(x, Zero) THEN Zero ELSE IF RatLt(Int2Rat(1), x) THEN Int2Rat(1) ELSE x

\* a decay factor that is not clipped to [0, 1]
DecayFactorUnclipped(decay_pixels, dist) ==
  IF decay_pixels = 0 THEN Zero
  ELSE RatDiv(RatSub(Int2Rat(decay_pixels), dist), Int2Rat(decay_pixels))

\* np.clip((decay_pixels - dist) / decay_pixels, 0, 1) for dist > 0; a
\* division by zero gives -inf, which clips to 0
DecayFactor(decay_pixels, dist) ==
  IF decay_pixels = 0 THEN Zero
  ELSE Clip01(RatDiv(RatSub(Int2Rat(decay_pixels), dist), Int2Rat(decay_pixels)))

\* filled_values at masked cell rc, whose nearest valid cell is q
FilledValue(data, decay_pixels, rc, q) ==
  RatMul(data[q[1]][q[2]], DecayFactor(decay_pixels, Sqrt(Dist2(rc, q))))

fill_nans(data, decay_pixels) ==
  IF ~AnyNaN(data) THEN data
  ELSE IF AllNaN(data) THEN data
  ELSE [r \in 1..Rows(data) |-> [c \in 1..Cols(data) |->
         IF ~IsNaN(data[r][c]) THEN data[r][c]
         ELSE FilledValue(data, decay_pixels, <<r, c>>, NearestValid(data, <<r, c>>))]]

\* data[data == src.nodata] = nan, and for .gtx data[data == -88.8888] = nan
\* (the -88.8888 test is modelled as matching the stored null value)
MaskNoData(f) ==
  [r \in 1..Rows(f.data) |-> [c \in 1..Cols(f.data) |->
     IF RatEq(f.data[r][c], f.nodata) THEN NaN
     ELSE IF f.gtx /\ RatEq(f.data[r][c], GtxNull) THEN NaN
     ELSE f.data[r][c]]]

\* np.linspace(first + res / 2, last - res / 2, n) with res = (last - first) / n
\* (for the latitudes first is the top and res is negated)
PixelCenters(first, last, n) ==
  Linspace(RatAdd(Int2Rat(first), Rat(last - first, 2 * n)),
           RatSub(Int2Rat(last), Rat(last - first, 2 * n)), n)

\* "if np.any(lons > 180): lons = ((lons + 180) % 360) - 180"
NormalizeLons(lons) ==
  IF \E i \in DOMAIN lons : RatLt(Int2Rat(180), lons[i])
  THEN [i \in DOMAIN lons |-> RatSub(RatMod(RatAdd(lons[i], Int2Rat(180)), 360), Int2Rat(180))]
  ELSE lons

\* _read_raster on a file that opens: <<lons, lats, data>>
read_raster(f) ==
  <<NormalizeLons(PixelCenters(f.left, f.right, Cols(f.data))),
    PixelCenters(f.top, f.bottom, Rows(f.data)),
    MaskNoData(f)>>

\* "if np.isnan(data).any(): data = GridEngine.fill_nans(data, decay_pixels=100)"
FillInternal(rr) == IF AnyNaN(rr[3]) THEN <<rr[1], rr[2], fill_nans(rr[3], 100)>> ELSE rr

\* the overlap check of load_and_interpolate: TRUE when the file is skipped
OutsideTarget(lons, lats, target_region) ==
  \/ RatLt(Int2Rat(target_region[2]), SeqMin(lons))
  \/ RatLt(SeqMax(lons), Int2Rat(target_region[1]))
  \/ RatLt(Int2Rat(target_region[4]), SeqMin(lats))
  \/ RatLt(SeqMax(lats), Int2Rat(target_region[3]))

\* "if lons[0] > lons[-1]: lons = np.flip(lons); data = np.flip(data, axis=1)"
FlipLons(rr) ==
  IF RatLt(rr[1][Len(rr[1])], rr[1][1]) THEN <<FlipSeq(rr[1]), rr[2], FlipCols(rr[3])>> ELSE rr

\* "if lats[0] > lats[-1]: lats = np.flip(lats); data = np.flip(data, axis=0)"
FlipLats(rr) ==
  IF RatLt(rr[2][Len(rr[2])], rr[2][1]) THEN <<rr[1], FlipSeq(rr[2]), FlipRows(rr[3])>> ELSE rr

\* what RegularGridInterpolator requires of an axis
StrictlyAscending(s) == \A i \in 1..(Len(s) - 1) : RatLt(s[i], s[i + 1])

\* the lower index of the interval used for x: searchsorted(grid, x) - 1
\* clamped into the axis, so that points outside use the end interval
ClampIndex(n, below) ==
  IF n = 1 THEN 1 ELSE IF below < 1 THEN 1 ELSE IF below > n - 1 THEN n - 1 ELSE below

FindIndex(grid, x) ==
  ClampIndex(Len(grid), Cardinality({i \in DOMAIN grid : RatLt(grid[i], x)}))

UpperIndex(grid, i) == IF Len(grid) = 1 THEN 1 ELSE i + 1

\* the normalised distance of x into the interval that starts at index i;
\* outside the axis it is below 0 or above 1 (fill_value=None: the end
\* interval is extended, the value is extrapolated)
NormDist(grid, x, i) ==
  IF Len(grid) = 1 THEN Zero
  ELSE RatDiv(RatSub(x, grid[i]), RatSub(grid[i + 1], grid[i]))

\* the weight of a corner along one axis
Weight(t, upper) == IF upper THEN t ELSE RatSub(Int2Rat(1), t)

Corner(data, r, c, wy, wx) == RatMul(RatMul(wy, wx), data[r][c])

\* the linear interpolant in the cell with lower corner (iy, ix)
Bilinear(data, iy, jy, ix, jx, ty, tx) ==
  RatAdd(RatAdd(Corner(data, iy, ix, Weight(ty, FALSE), Weight(tx, FALSE)),
                Corner(data, iy, jx, Weight(ty, FALSE), Weight(tx, TRUE))),
         RatAdd(Corner(data, jy, ix, Weight(ty, TRUE), Weight(tx, FALSE)),
                Corner(data, jy, jx, Weight(ty, TRUE), Weight(tx, TRUE))))

InterpAt(lats, lons, data, y, x, iy, ix) ==
  Bilinear(data, iy, UpperIndex(lats, iy), ix, UpperIndex(lons, ix),
           NormDist(lats, y, iy), NormDist(lons, x, ix))

\* RegularGridInterpolator((lats, lons), data, bounds_error=False,
\*                         fill_value=None, method='linear') at (y, x)
Interp(lats, lons, data, y, x) ==
  InterpAt(lats, lons, data, y, x, FindIndex(lats, y), FindIndex(lons, x))

\* target sample coordinates of load_and_interpolate
TargetX(target_region, nx) == Linspace(Int2Rat(target_region[1]), Int2Rat(target_region[2]), nx)

TargetY(target_region, ny) == Linspace(Int2Rat(target_region[3]), Int2Rat(target_region[4]), ny)

\* RegularGridInterpolator raises ValueError unless both axes are strictly
\* ascending
StandardAxes(std) == StrictlyAscending(std[2]) /\ StrictlyAscending(std[1])

\* interp(query_pts).reshape(ny, nx) on standardized axes
InterpolateOnto(std, ty, tx) ==
  [r \in DOMAIN ty |-> [c \in DOMAIN tx |-> Interp(std[2], std[1], std[3], ty[r], tx[c])]]

\* how the loop body ends for a file that was read: "outside" (skipped by
\* the overlap check), "error" (an exception, caught and logged) or "patch"
StatusOf(rr, target_region) ==
  IF OutsideTarget(rr[1], rr[2], target_region) THEN "outside"
  ELSE IF ~StandardAxes(FlipLats(FlipLons(rr))) THEN "error"
  ELSE "patch"

\* how one file of source_files is disposed of
FileStatus(f, target_region) ==
  IF ~f.exists THEN "missing"
  ELSE IF ~f.readable THEN "unreadable"
  ELSE StatusOf(FillInternal(read_raster(f)), target_region)

PatchOf(rr, target_region, nx, ny) ==
  InterpolateOnto(FlipLats(FlipLons(rr)), TargetY(target_region, ny), TargetX(target_region, nx))

\* the patch interpolated from a file whose status is "patch"
Patch(f, target_region, nx, ny) == PatchOf(FillInternal(read_raster(f)), target_region, nx, ny)

OutcomeOf(status, f, target_region, nx, ny) ==
  [status |-> status,
   patch |-> IF status = "patch" THEN Patch(f, target_region, nx, ny) ELSE <<>>]

\* status and patch of one file of source_files
FileOutcome(f, target_region, nx, ny) ==
  OutcomeOf(FileStatus(f, target_region), f, target_region, nx, ny)

\* a mask that lets every valid patch cell overwrite the mosaic
MergeMaskOverwrite(mosaic_cell, patch_cell) == ~IsNaN(patch_cell)

\* mask = np.isnan(mosaic) & ~np.isnan(patch)
MergeMask(mosaic_cell, patch_cell) == IsNaN(mosaic_cell) /\ ~IsNaN(patch_cell)

\* mosaic[mask] = patch[mask]
Merge(mosaic, patch) ==
  [r \in 1..Rows(mosaic) |-> [c \in 1..Cols(mosaic) |->
     IF MergeMask(mosaic[r][c], patch[r][c]) THEN patch[r][c] ELSE mosaic[r][c]]]


\* an iteration that ends in an exception empties the mosaic
MergedOrReset(mosaic, outcome) ==
  IF outcome.status = "patch" THEN Merge(mosaic, outcome.patch)
  ELSE IF outcome.status = "error" THEN FullNaN(Rows(mosaic), Cols(mosaic))
  ELSE mosaic

\* the mosaic after an iteration with this outcome
Merged(mosaic, outcome) ==
  IF outcome.status = "patch" THEN Merge(mosaic, outcome.patch) ELSE mosaic

\* one iteration of the loop of load_and_interpolate
MosaicStep(mosaic, f, target_region, nx, ny) ==
  Merged(mosaic, FileOutcome(f, target_region, nx, ny))

RECURSIVE MosaicFrom(_, _, _, _, _)
MosaicFrom(mosaic, source_files, target_region, nx, ny) ==
  IF source_files = <<>> THEN mosaic
  ELSE MosaicFrom(MosaicStep(mosaic, Head(source_files), target_region, nx, ny),
                  Tail(source_files), target_region, nx, ny)

load_and_interpolate(source_files, target_region, nx, ny) ==
  MosaicFrom(FullNaN(ny, nx), source_files, target_region, nx, ny)

(***************************************************************************)
(* htdp.py: parsing the output of the HTDP tool                            *)
(*                                                                         *)
(* A line of the output file is a str without its newline.                 *)
(***************************************************************************)
Quote == "\""

PntMarker == <<"P","N","T","_">>

\* line.replace('"', ' "')
RECURSIVE SpaceQuotes(_)
SpaceQuotes(s) ==
  IF s = <<>> THEN <<>>
  ELSE IF Head(s) = Quote THEN <<" ", Quote>> \o SpaceQuotes(Tail(s))
  ELSE <<Head(s)>> \o SpaceQuotes(Tail(s))

\* str.split(sep): the pieces between separators, empty pieces kept
RECURSIVE SplitOn(_, _, _)
SplitOn(s, sep, cur) ==
  IF s = <<>> THEN <<cur>>
  ELSE IF Head(s) = sep THEN <<cur>> \o SplitOn(Tail(s), sep, <<>>)
  ELSE SplitOn(Tail(s), sep, Append(cur, Head(s)))

\* str.split(): the pieces between runs of blanks, empty pieces dropped
SplitBlank(s) == SelectSeq(SplitOn(s, " ", <<>>), LAMBDA p : p # <<>>)

\* str.strip('"')
RECURSIVE StripQuotes(_)
StripQuotes(s) ==
  IF s # <<>> /\ Head(s) = Quote THEN StripQuotes(Tail(s))
  ELSE IF s # <<>> /\ s[Len(s)] = Quote THEN StripQuotes(SubSeq(s, 1, Len(s) - 1))
  ELSE s

AllDigits(s) == \A i \in DOMAIN s : IsDigit(s[i])

RECURSIVE DigitsVal(_, _)
DigitsVal(s, acc) ==
  IF s = <<>> THEN acc ELSE DigitsVal(Tail(s), 10 * acc + DigitVal(Head(s)))

RECURSIVE Pow10(_)
Pow10(n) == IF n = 0 THEN 1 ELSE 10 * Pow10(n - 1)

\* the magnitude of digits "whole" followed by a fraction of digits "frac"
Decimal(whole, frac) ==
  Rat(DigitsVal(whole, 0) * Pow10(Len(frac)) + DigitsVal(frac, 0), Pow10(Len(frac)))

\* float() of an unsigned body split at its decimal points
ParseUnsigned(pieces) ==
  IF Len(pieces) > 2 THEN [ok |-> FALSE, val |-> NaN]
  ELSE IF Len(pieces) = 1
  THEN IF pieces[1] # <<>> /\ AllDigits(pieces[1])
       THEN [ok |-> TRUE, val |-> Decimal(pieces[1], <<>>)]
       ELSE [ok |-> FALSE, val |-> NaN]
  ELSE IF AllDigits(pieces[1]) /\ AllDigits(pieces[2]) /\ Len(pieces[1]) + Len(pieces[2]) > 0
  THEN [ok |-> TRUE, val |-> Decimal(pieces[1], pieces[2])]
  ELSE [ok |-> FALSE, val |-> NaN]

Negated(parsed_float) == [parsed_float EXCEPT !.val = RatNeg(parsed_float.val)]

ParseStripped(t) ==
  IF t # <<>> /\ Head(t) = "-" THEN Negated(ParseUnsigned(SplitOn(Tail(t), ".", <<>>)))
  ELSE IF t # <<>> /\ Head(t) = "+" THEN ParseUnsigned(SplitOn(Tail(t), ".", <<>>))
  ELSE ParseUnsigned(SplitOn(t, ".", <<>>))

\* float(str) for plain decimal notation: optional sign, digits, optional
\* fraction; ok = FALSE stands for ValueError
ParseFloat(s) == ParseStripped(Strip(s))

NoPoint == [ok |-> FALSE, x_idx |-> 0, y_idx |-> 0, lat |-> NaN, lon |-> NaN, eht |-> NaN]

\* a '*' at the start of the line is kept
KeepStar(parts) == parts

\* "if parts[0] == '*': parts = parts[1:]"
DropStar(parts) == IF parts # <<>> /\ parts[1] = <<"*">> THEN Tail(parts) ELSE parts

\* next(p for p in parts if 'PNT_' in p).strip('"').split('_')
NameTokens(parts) ==
  SplitOn(StripQuotes(parts[MinOf({i \in DOMAIN parts : Contains(PntMarker, parts[i])})]),
          "_", <<>>)

PointOf(lat, lon, eht, x, y) ==
  IF lat.ok /\ lon.ok /\ eht.ok /\ x.ok /\ y.ok
  THEN [ok |-> TRUE, x_idx |-> x.val, y_idx |-> y.val,
        lat |-> lat.val, lon |-> lon.val, eht |-> eht.val]
  ELSE NoPoint

\* the indices of the tag; a missing token stands for IndexError
TaggedPoint(parts, name_tokens) ==
  IF Len(name_tokens) < 3 THEN NoPoint
  ELSE PointOf(ParseFloat(parts[1]), ParseFloat(parts[2]), ParseFloat(parts[3]),
               ParseInt(name_tokens[2]), ParseInt(name_tokens[3]))

\* the floats are read before the tag is looked for
ParseParts(parts) ==
  IF Len(parts) < 3 THEN NoPoint
  ELSE IF ~ParseFloat(parts[1]).ok \/ ~ParseFloat(parts[2]).ok \/ ~ParseFloat(parts[3]).ok
  THEN NoPoint
  ELSE TaggedPoint(parts, NameTokens(parts))

\* the try-block of _next_point on one stripped line that contains "PNT_":
\* ok = FALSE stands for the ValueError / IndexError that skips the line
ParsePointLine(line) == ParseParts(DropStar(SplitBlank(SpaceQuotes(line))))

\* what _next_point makes of one line: a tuple (ok) or a skipped line
ReadLine(line) ==
  IF Contains(PntMarker, Strip(line)) THEN ParsePointLine(Strip(line)) ELSE NoPoint

\* _next_point(fd) with fd at line pos + 1 of lines: the index of the first
\* line from there that yields a tuple, 0 when the file ends first (None)
RECURSIVE next_point(_, _)
next_point(lines, pos) ==
  IF pos >= Len(lines) THEN 0
  ELSE IF ReadLine(lines[pos + 1]).ok THEN pos + 1
  ELSE next_point(lines, pos + 1)

\* grid[y, x] with numpy indexing: a negative index counts from the end,
\* FALSE stands for IndexError
InBounds(shape, y, x) ==
  /\ 0 - shape[1] <= y /\ y < shape[1]
  /\ 0 - shape[2] <= x /\ x < shape[2]

\* the row or column a numpy index addresses, counted from 1
NpIndex(n, i) == IF i < 0 THEN n + i + 1 ELSE i + 1

(***************************************************************************)
(* htdp.py: _new_create_grid and _write_grid                                *)
(***************************************************************************)
\* the nine digits after the decimal point of rem / d, by long division
RECURSIVE FracDigits(_, _, _)
FracDigits(rem, d, k) ==
  IF k = 0 THEN <<>>
  ELSE <<Digits[((rem * 10) \div d) + 1]>> \o FracDigits((rem * 10) % d, d, k - 1)

\* f'{x:.9f}' for a value with at most nine decimals
Fixed9(x) ==
  (IF x[1] < 0 THEN <<"-">> ELSE <<>>) \o NatStr(Abs(x[1]) \div x[2]) \o <<".">>
    \o FracDigits(Abs(x[1]) % x[2], x[2], 9)

\* _new_create_grid(griddef), griddef = <<lon_min, lat_min, lon_max, lat_max,
\* lon_steps, lat_steps>>: the axes run from the smaller to the larger bound,
\* and with indexing='xy' row j holds latitude lat_axis[j]
new_create_grid(griddef) ==
  [lon |-> [j \in 1..griddef[6] |->
              Linspace(Int2Rat(MinOf({griddef[1], griddef[3]})),
                       Int2Rat(MaxOf({griddef[1], griddef[3]})), griddef[5])],
   lat |-> [j \in 1..griddef[6] |-> [i \in 1..griddef[5] |->
              Linspace(Int2Rat(MinOf({griddef[2], griddef[4]})),
                       Int2Rat(MaxOf({griddef[2], griddef[4]})), griddef[6])[j]]]]

\* f'{lat:.9f} {lon:.9f} 0.000 "PNT_{i}_{j}"' (i, j counted from 0)
PointLine(grid, i, j) ==
  Fixed9(grid.lat[j + 1][i + 1]) \o <<" ">> \o Fixed9(grid.lon[j + 1][i + 1])
    \o <<" ", "0", ".", "0", "0", "0", " ", Quote>> \o PntMarker
    \o NatStr(i) \o <<"_">> \o NatStr(j) \o <<Quote>>

\* _write_grid(grid, out_filename): the lines written, columns outermost
write_grid(grid) ==
  [k \in 1..(Rows(grid.lat) * Cols(grid.lat)) |->
     PointLine(grid, (k - 1) \div Rows(grid.lat), (k - 1) % Rows(grid.lat))]

(***************************************************************************)
(* GridEngine.apply_vertical_shift                                         *)
(***************************************************************************)

\* ndarray.shape
Shape(a) == <<Rows(a), Cols(a)>>

\* "nodata = src.nodata; if nodata is None: nodata = -9999"
NodataOf(src) == IF src.declared THEN src.nodata ELSE Int2Rat(0 - 9999)

\* a mask that looks at the raster only
ValidMaskDataOnly(v, nodata, s) == ~RatEq(v, nodata)

\* one cell of "valid_mask = (data != nodata) & (~np.isnan(shift_array))"
ValidMask(v, nodata, s) == ~RatEq(v, nodata) /\ ~IsNaN(s)

\* "data[valid_mask] += shift_array[valid_mask]; data[~valid_mask] = nodata"
ShiftedCell(v, nodata, s) == IF ValidMask(v, nodata, s) THEN RatAdd(v, s) ELSE nodata

ShiftedData(data, nodata, shift_array) ==
  [r \in 1..Rows(data) |-> [c \in 1..Cols(data) |->
     ShiftedCell(data[r][c], nodata, shift_array[r][c])]]

\* the file "rasterio.open(dst_dem, 'w', **profile)" and dst.write leave
WrittenDem(nodata, data) == [exists |-> TRUE, declared |-> TRUE, nodata |-> nodata, data |-> data]

\* "Dimension mismatch: DEM {data.shape} vs Shift {shift_array.shape}"
DimensionMismatch(data, shift_array) == <<"Dimension mismatch", Shape(data), Shape(shift_array)>>

\* a failure that has already opened the destination for writing
FailedAfterCreate(dst, message) ==
  [ret |-> FALSE, dst |-> WrittenDem(Int2Rat(0 - 9999), <<>>), log |-> message]

\* "except Exception as e: logger.error(...); return False"
Failed(dst, message) == [ret |-> FALSE, dst |-> dst, log |-> message]

\* "return True" after the write
Applied(src, shift_array) ==
  [ret |-> TRUE,
   dst |-> WrittenDem(NodataOf(src), ShiftedData(src.data, NodataOf(src), shift_array)),
   log |-> <<>>]

apply_vertical_shift(src, shift_array, dst) ==
  IF ~src.exists THEN Failed(dst, <<"open">>)
  ELSE IF Shape(src.data) # Shape(shift_array)
  THEN Failed(dst, DimensionMismatch(src.data, shift_array))
  ELSE Applied(src, shift_array)

(***************************************************************************)
(* grid_engine.py: GridWriter                                              *)
(***************************************************************************)
\* GridWriter.write: with from_origin(xmin, ymax, res_x, res_y) and
\* res_y = (ymax - ymin) / rows, row r (counted from 1) of the raster spans
\* the latitudes from ymax - r * res_y up to ymax - (r - 1) * res_y
WriterRowBand(region, rows, r) ==
  [south |-> RatSub(Int2Rat(region[4]), Rat(r * (region[4] - region[3]), rows)),
   north |-> RatSub(Int2Rat(region[4]), Rat((r - 1) * (region[4] - region[3]), rows))]

(***************************************************************************)
(* transform.py: VerticalTransform                                         *)
(*                                                                         *)
(* An epoch is a decimal year, modelled as an integer; NoEpoch is None.    *)
(* self is a record of the fields set by __init__.  world maps a fetch     *)
(* request <<provider, name>> to the files fetch_grid returns for it.      *)
(* Every helper returns a record with its grid and what it logged:         *)
(* fetches (the fetch_grid calls), warnings (the names reported as "No     *)
(* grids found") and htdp (the outcomes of the HTDP bridge calls).         *)
(***************************************************************************)

HUB_EPSG == 6319

HubEpoch == 1997

NoEpoch == 0 - 1

Proj == <<"p","r","o","j">>

VDatum == <<"v","d","a","t","u","m">>

Tss == <<"t","s","s">>

G2018 == <<"g","2","0","1","8">>

GeoidEq == <<"g","e","o","i","d","=">>

\* the names for which _get_vdatum_chain skips the tidal separation
MslNames == {<<"m","s","l">>, <<"5","7","1","4">>, <<"l","m","s","l">>}

\* Python truthiness of an optional str
Truthy(s) == s # NONE /\ s # <<>>

Result(grid, desc, fetches, warnings, htdp) ==
  [grid |-> grid, desc |-> desc, fetches |-> fetches, warnings |-> warnings, htdp |-> htdp]

\* what a helper returns when it fetches nothing: np.zeros((self.ny, self.nx))
ZeroResult(self) == Result(Zeros(self.ny, self.nx), "", <<>>, <<>>, <<>>)

WithDesc(res, desc) == [res EXCEPT !.desc = desc]

\* a from-hub leg that keeps the sign of the grid
UnnegatedResult(res, desc) == [res EXCEPT !.desc = desc]

\* "shift = grid * -1"
NegatedResult(res, desc) == [res EXCEPT !.grid = GridNeg(res.grid), !.desc = desc]

\* fetch_grid(provider, datatype=name, query=name): the valid local files
fetch_grid(world, module_name, name) ==
  IF <<module_name, name>> \in DOMAIN world THEN world[<<module_name, name>>] ELSE <<>>

\* a loader without the test for an empty file list
GridFromFilesUnchecked(self, provider, name, files) ==
  Result(load_and_interpolate(files, self.region, self.nx, self.ny),
         "", <<<<provider, name>>>>, <<>>, <<>>)

\* "if not files: logger.warning(...); return np.zeros(...)", else the mosaic
GridFromFiles(self, provider, name, files) ==
  IF files = <<>>
  THEN Result(Zeros(self.ny, self.nx), "", <<<<provider, name>>>>, <<name>>, <<>>)
  ELSE Result(load_and_interpolate(files, self.region, self.nx, self.ny),
              "", <<<<provider, name>>>>, <<>>, <<>>)

FetchAndLoad(self, world, provider, name) ==
  GridFromFiles(self, provider, name, fetch_grid(world, provider, name))

\* "if 'geoid=' in name: name = name[6:]"
StripGeoidPrefix(name) == IF Contains(GeoidEq, name) THEN SubSeq(name, 7, Len(name)) ELSE name

get_grid(self, world, provider, name) ==
  IF ~Truthy(name) THEN ZeroResult(self)
  ELSE FetchAndLoad(self, world, IF Truthy(provider) THEN provider ELSE Proj,
                    StripGeoidPrefix(name))

\* a chain without the sea surface topography leg
ChainWithoutTss(self, sep, tss, geoid) ==
  Result(GridAdd(GridAdd(Zeros(self.ny, self.nx), sep.grid), geoid.grid),
         "chain",
         sep.fetches \o tss.fetches \o geoid.fetches,
         sep.warnings \o tss.warnings \o geoid.warnings,
         <<>>)

\* total_shift of _get_vdatum_chain from its three legs
ChainOf(self, sep, tss, geoid) ==
  Result(GridAdd(GridAdd(GridAdd(Zeros(self.ny, self.nx), sep.grid), tss.grid), geoid.grid),
         "chain",
         sep.fetches \o tss.fetches \o geoid.fetches,
         sep.warnings \o tss.warnings \o geoid.warnings,
         <<>>)

\* "actual_geoid = geoid_name if geoid_name else 'g2018'" and its grid
GeoidLeg(self, world, actual_geoid) ==
  get_grid(self, world, geoid_provider(actual_geoid), actual_geoid)

\* a chain that fetches a separation grid for mean sea level too
get_vdatum_chain_with_msl_separation(self, world, datum_name, geoid_name) ==
  ChainOf(self,
          get_grid(self, world, VDatum, datum_name),
          get_grid(self, world, VDatum, Tss),
          GeoidLeg(self, world, IF Truthy(geoid_name) THEN geoid_name ELSE G2018))

get_vdatum_chain(self, world, datum_name, geoid_name) ==
  ChainOf(self,
          IF datum_name \notin MslNames THEN get_grid(self, world, VDatum, datum_name)
          ELSE ZeroResult(self),
          get_grid(self, world, VDatum, Tss),
          GeoidLeg(self, world, IF Truthy(geoid_name) THEN geoid_name ELSE G2018))

\* tool.run_grid(...): class HTDP defines no run_grid, the call raises
\* AttributeError
run_grid == [raised |-> TRUE, grid |-> <<>>]

\* the try / except Exception around the bridge
BridgeShift(self, ran) ==
  IF ran.raised THEN Result(Zeros(self.ny, self.nx), "", <<>>, <<>>, <<"raised">>)
  ELSE Result(ran.grid, "", <<>>, <<>>, <<"returned">>)

get_htdp_shift(self, epsg_from, epsg_to, epoch_from, epoch_to) ==
  IF epsg_from = epsg_to /\ epoch_from = epoch_to THEN ZeroResult(self)
  ELSE BridgeShift(self, run_grid)

\* a hub test against another epoch
AtHubWrongEpoch(epsg, epoch) == epsg = HUB_EPSG /\ epoch = 2010

\* the test that opens _step_to_hub and _step_from_hub
AtHub(epsg, epoch) == epsg = HUB_EPSG /\ epoch = HubEpoch

step_to_hub(self, world, epsg, ref_type, geoid, epoch) ==
  IF AtHub(epsg, epoch) THEN WithDesc(ZeroResult(self), "Already at Hub")
  ELSE IF ref_type = "surface"
  THEN WithDesc(get_vdatum_chain(self, world, Entry(SURFACES, epsg).name, geoid),
                "Tidal -> Hub [Add Chain]")
  ELSE IF ref_type = "cdn"
  THEN IF Truthy(geoid)
       THEN WithDesc(get_grid(self, world, geoid_provider(geoid), geoid),
                     "Ortho -> Hub [Geoid Add]")
       ELSE WithDesc(ZeroResult(self), "Ortho -> Hub [Missing Geoid - Zero Shift]")
  ELSE IF ref_type = "htdp"
  THEN WithDesc(get_htdp_shift(self, epsg, HUB_EPSG, epoch, HubEpoch),
                "Ellipsoid -> Hub [HTDP]")
  ELSE ZeroResult(self)

step_from_hub(self, world, epsg, ref_type, geoid, epoch) ==
  IF AtHub(epsg, epoch) THEN WithDesc(ZeroResult(self), "Remain at Hub")
  ELSE IF ref_type = "surface"
  THEN NegatedResult(get_vdatum_chain(self, world, Entry(SURFACES, epsg).name,
                                      IF Truthy(geoid) THEN geoid ELSE G2018),
                     "Hub -> Tidal [Subtract Chain]")
  ELSE IF ref_type = "cdn"
  THEN NegatedResult(GeoidLeg(self, world, IF Truthy(geoid) THEN geoid ELSE G2018),
                     "Hub -> Ortho [Geoid Subtract]")
  ELSE IF ref_type = "htdp"
  THEN WithDesc(get_htdp_shift(self, HUB_EPSG, epsg, HubEpoch, epoch),
                "Hub -> Ellipsoid [HTDP]")
  ELSE ZeroResult(self)

\* "float(epoch) if epoch else 1997.0"
EpochOrDefault(epoch) == IF epoch \in {NoEpoch, 0} THEN HubEpoch ELSE epoch

\* the fields __init__ sets once both frames are resolved
Resolved(rq, e_in, e_out) ==
  [region |-> rq.region, nx |-> rq.nx, ny |-> rq.ny,
   epsg_in |-> e_in, epsg_out |-> e_out,
   geoid_in |-> IF Truthy(rq.geoid_in) THEN rq.geoid_in ELSE get_default_geoid(e_in),
   geoid_out |-> IF Truthy(rq.geoid_out) THEN rq.geoid_out ELSE get_default_geoid(e_out),
   epoch_in |-> EpochOrDefault(rq.epoch_in),
   epoch_out |-> EpochOrDefault(rq.epoch_out),
   ref_in |-> get_frame_type(e_in), ref_out |-> get_frame_type(e_out)]

\* VerticalTransform.__init__ on a request
\* [region, nx, ny, epsg_in, epsg_out, geoid_in, geoid_out, epoch_in, epoch_out]
\* where epsg_in and epsg_out are already str(...)
NewTransform(rq) ==
  Resolved(rq, get_vdatum_by_name(rq.epsg_in), get_vdatum_by_name(rq.epsg_out))

\* an identity test that holds only when no geoid is involved
IsIdentityWithoutGeoid(self) ==
  /\ self.epsg_in = self.epsg_out
  /\ self.epoch_in = self.epoch_out
  /\ self.geoid_in = NONE /\ self.geoid_out = NONE

\* an identity test that looks at the frames only
IsIdentityFramesOnly(self) == self.epsg_in = self.epsg_out

\* the identity test of _vertical_transform
IsIdentity(self) ==
  /\ self.epsg_in = self.epsg_out
  /\ self.epoch_in = self.epoch_out
  /\ self.geoid_in = self.geoid_out

\* "if np.any(grid): total_shift += grid"
Accumulate(total_shift, grid) == IF NpAny(grid) THEN GridAdd(total_shift, grid) ELSE total_shift

\* "grid_1, desc_1 = self._step_to_hub(self.epsg_in, self.ref_in, ...)"
Leg1(self, world) ==
  step_to_hub(self, world, self.epsg_in, self.ref_in, self.geoid_in, self.epoch_in)

\* "grid_2, desc_2 = self._step_from_hub(self.epsg_out, self.ref_out, ...)"
Leg2(self, world) ==
  step_from_hub(self, world, self.epsg_out, self.ref_out, self.geoid_out, self.epoch_out)

\* the shift grid _vertical_transform returns
ShiftOf(self, world) ==
  IF IsIdentity(self) THEN Zeros(self.ny, self.nx)
  ELSE Accumulate(Accumulate(Zeros(self.ny, self.nx), Leg1(self, world).grid),
                  Leg2(self, world).grid)

(***************************************************************************)
(* cli.py: the region and increment arguments of transformez_cli           *)
(*                                                                         *)
(* A region is <<xmin, xmax, ymin, ymax>> of rationals.  An outcome of the *)
(* argument handling is a record: at "sized" with nx and ny, at "exit"     *)
(* with the code of sys.exit, or at "raised" for an uncaught exception.    *)
(***************************************************************************)
\* int(x) of a float: truncation towards zero
IntOf(x) == IF x[1] >= 0 THEN x[1] \div x[2] ELSE 0 - ((0 - x[1]) \div x[2])

AllOk(floats) == \A i \in DOMAIN floats : floats[i].ok

\* Region.from_string on "xmin/xmax/ymin/ymax": the region, or None
RegionFromPieces(floats) ==
  IF Len(floats) = 4 /\ AllOk(floats)
  THEN <<floats[1].val, floats[2].val, floats[3].val, floats[4].val>>
  ELSE NONE

\* parse_region(args.region): a list with the region, or an empty list
RegionList(r) == IF r = NONE THEN <<>> ELSE <<r>>

ParseFloats(pieces) == [i \in DOMAIN pieces |-> ParseFloat(pieces[i])]

parse_region(input_r) == RegionList(RegionFromPieces(ParseFloats(SplitOn(input_r, "/", <<>>))))

\* utils.str2inc on a string without a unit suffix: its float, or None
str2inc(inc_str) == ParseFloat(inc_str)

Sized(nx, ny) == [at |-> "sized", nx |-> nx, ny |-> ny, code |-> 0]

\* "except Exception as e: logger.error(...); sys.exit(1)"
InvalidIncrement == [at |-> "exit", nx |-> 0, ny |-> 0, code |-> 1]

Uncaught == [at |-> "raised", nx |-> 0, ny |-> 0, code |-> 1]

\* "nx = int(width / inc_x); ny = int(height / inc_y)"; a division by 0.0
\* raises ZeroDivisionError, int(nan) raises ValueError
GridSize(region_obj, inc_x, inc_y) ==
  IF inc_x = Zero \/ inc_y = Zero \/ IsNaN(inc_x) \/ IsNaN(inc_y) THEN InvalidIncrement
  ELSE Sized(IntOf(RatDiv(RatSub(region_obj[2], region_obj[1]), inc_x)),
             IntOf(RatDiv(RatSub(region_obj[4], region_obj[3]), inc_y)))

\* "inc_x, inc_y = [float(x) for x in args.increment.split('/')]"
SlashIncrement(region_obj, floats) ==
  IF Len(floats) # 2 \/ ~AllOk(floats) THEN InvalidIncrement
  ELSE GridSize(region_obj, floats[1].val, floats[2].val)

\* "inc_val = utils.str2inc(args.increment); inc_x, inc_y = inc_val, inc_val"
PlainIncrement(region_obj, inc_val) ==
  IF ~inc_val.ok THEN InvalidIncrement
  ELSE GridSize(region_obj, inc_val.val, inc_val.val)

\* the try block on args.increment; "'/' in None" raises TypeError
IncrementOf(region_obj, increment) ==
  IF increment = NONE THEN InvalidIncrement
  ELSE IF Contains(<<"/">>, increment)
  THEN SlashIncrement(region_obj, ParseFloats(SplitOn(increment, "/", <<>>)))
  ELSE PlainIncrement(region_obj, str2inc(increment))

\* "these_regions = parse_region(args.region); region_obj = these_regions[0]"
\* and the try block; [0] of an empty list raises IndexError
RegionAndSize(these_regions, increment) ==
  IF these_regions = <<>> THEN Uncaught
  ELSE IncrementOf(these_regions[1], increment)

\* region_geo_transform(region, nx, ny) in VerticalTransform.__init__ divides
\* by float(nx) and float(ny)
GeoTransformRaises(nx, ny) == nx = 0 \/ ny = 0

(***************************************************************************)
(* State                                                                   *)
(***************************************************************************)
VARIABLES
  \* Datums lookups
  rpc, rquery, rframe, rtype, rgeoid, rinit,
  \* GridEngine.load_and_interpolate
  mpc, source_files, target_region, mnx, mny, mi, mosaic,
  \* HTDP._read_grid
  hpc, hlines, hshape, hverbose, hpos, hgrid, points_found, parsed,
  \* VerticalTransform
  pc, req, world, self, grid_1, grid_2, total_shift, desc_1, desc_2,
  fetchLog, warnLog, htdpLog, legs,
  \* GridEngine.fill_nans
  fpc, fdata, fdecay, fout,
  \* GridEngine.apply_vertical_shift
  apc, asrc, ashift, adst, aret, alog,
  \* transformez_cli
  cpc, cargs, cregion, cnx, cny, cexit,
  \* VerticalTransform._step_to_hub and _step_from_hub called on their own
  lpc, largs, lworld, lto, lfrom

rvars == <<rpc, rquery, rframe, rtype, rgeoid, rinit>>

mvars == <<mpc, source_files, target_region, mnx, mny, mi, mosaic>>

hvars == <<hpc, hlines, hshape, hverbose, hpos, hgrid, points_found, parsed>>

tvars == <<pc, req, world, self, grid_1, grid_2, total_shift, desc_1, desc_2,
           fetchLog, warnLog, htdpLog, legs>>

fvars == <<fpc, fdata, fdecay, fout>>

avars == <<apc, asrc, ashift, adst, aret, alog>>

cvars == <<cpc, cargs, cregion, cnx, cny, cexit>>

lvars == <<lpc, largs, lworld, lto, lfrom>>

vars == <<rvars, mvars, hvars, tvars, fvars, avars, cvars, lvars>>

\* the target region <<xmin, xmax, ymin, ymax>> of every run of the model
Region == <<0, 4, 0, 4>>

NullRequest ==
  [region |-> Region, nx |-> 0, ny |-> 0, epsg_in |-> NONE, epsg_out |-> NONE,
   geoid_in |-> NONE, geoid_out |-> NONE, epoch_in |-> NoEpoch, epoch_out |-> NoEpoch]

NullSelf ==
  [region |-> Region, nx |-> 0, ny |-> 0, epsg_in |-> NoFrame, epsg_out |-> NoFrame,
   geoid_in |-> NONE, geoid_out |-> NONE, epoch_in |-> NoEpoch, epoch_out |-> NoEpoch,
   ref_in |-> "none", ref_out |-> "none"]

RIdle ==
  /\ rpc = "idle" /\ rquery = NONE /\ rframe = NoFrame /\ rtype = "none" /\ rgeoid = NONE
  /\ rinit = NONE

MIdle ==
  /\ mpc = "idle" /\ source_files = <<>> /\ target_region = Region
  /\ mnx = 0 /\ mny = 0 /\ mi = 0 /\ mosaic = <<>>

HIdle ==
  /\ hpc = "idle" /\ hlines = <<>> /\ hshape = <<0, 0>> /\ hverbose = FALSE
  /\ hpos = 0 /\ hgrid = <<>> /\ points_found = 0 /\ parsed = <<>>

TIdle ==
  /\ pc = "idle" /\ req = NullRequest /\ world = <<>> /\ self = NullSelf
  /\ grid_1 = <<>> /\ grid_2 = <<>> /\ total_shift = <<>>
  /\ desc_1 = "" /\ desc_2 = ""
  /\ fetchLog = <<>> /\ warnLog = <<>> /\ htdpLog = <<>> /\ legs = <<>>

FIdle == fpc = "idle" /\ fdata = <<>> /\ fdecay = 0 /\ fout = <<>>

AIdle ==
  /\ apc = "idle" /\ asrc = NONE /\ ashift = <<>> /\ adst = NONE
  /\ aret = NONE /\ alog = <<>>

CIdle ==
  /\ cpc = "idle" /\ cargs = NONE /\ cregion = NONE
  /\ cnx = 0 /\ cny = 0 /\ cexit = NONE

LIdle == lpc = "idle" /\ largs = NONE /\ lworld = <<>> /\ lto = NONE /\ lfrom = NONE

(***************************************************************************)
(* The raster files of the model                                           *)
(***************************************************************************)
NoData == Int2Rat(0 - 9999)

RasterFile(left, bottom, right, top, data) ==
  [exists |-> TRUE, readable |-> TRUE, gtx |-> FALSE,
   left |-> left, bottom |-> bottom, right |-> right, top |-> top,
   nodata |-> NoData, data |-> data]

\* a 2 x 2 raster whose pixel centers are the corners of Region, every cell v
SrcConst(v) == RasterFile(0 - 2, 0 - 2, 6, 6, <<<<v, v>>, <<v, v>>>>)

\* pixel centers at longitudes 0 and 2: the west half of Region
SrcWest ==
  RasterFile(0 - 1, 0 - 2, 3, 6,
             <<<<Int2Rat(10), Int2Rat(20)>>, <<Int2Rat(30), Int2Rat(40)>>>>)

\* pixel centers at longitudes 2 and 4: the east half of Region
SrcEast ==
  RasterFile(1, 0 - 2, 5, 6,
             <<<<Int2Rat(1), Int2Rat(2)>>, <<Int2Rat(3), Int2Rat(5)>>>>)

\* one no-data cell, its two nearest valid cells hold the same value
SrcHole ==
  [RasterFile(0 - 2, 0 - 2, 6, 6, <<<<NoData, Int2Rat(5)>>, <<Int2Rat(5), Int2Rat(7)>>>>)
     EXCEPT !.gtx = TRUE]

\* every cell is no-data
SrcAllNaN == RasterFile(0 - 2, 0 - 2, 6, 6, <<<<NoData, NoData>>, <<NoData, NoData>>>>)

\* far from Region
SrcFar == RasterFile(100, 100, 108, 108, <<<<Int2Rat(9), Int2Rat(9)>>, <<Int2Rat(9), Int2Rat(9)>>>>)

\* stored on a 0..360 longitude axis across the 180 degree meridian
SrcWrap ==
  RasterFile(177, 0 - 2, 183, 6,
             <<<<Int2Rat(1), Int2Rat(2), Int2Rat(3)>>, <<Int2Rat(4), Int2Rat(5), Int2Rat(6)>>>>)

SrcMissing == [SrcConst(Int2Rat(8)) EXCEPT !.exists = FALSE]

SrcBroken == [SrcConst(Int2Rat(8)) EXCEPT !.readable = FALSE]

SourceLibrary ==
  {SrcConst(Int2Rat(6)), SrcWest, SrcEast, SrcHole, SrcAllNaN, SrcFar, SrcWrap,
   SrcMissing, SrcBroken}

SeqsUpTo(S, n) == UNION {[1..k -> S] : k \in 0..n}

(***************************************************************************)
(* GridEngine.load_and_interpolate as a loop over source_files             *)
(***************************************************************************)
MosaicInit ==
  /\ mpc = "loop"
  /\ source_files \in SeqsUpTo(SourceLibrary, MaxFiles)
  /\ target_region = Region
  /\ mnx \in 1..MaxDim
  /\ mny \in 1..MaxDim
  /\ mi = 1
  /\ mosaic = FullNaN(mny, mnx)
  /\ RIdle /\ HIdle /\ TIdle /\ FIdle /\ AIdle /\ CIdle /\ LIdle

\* an iteration whose file is disposed of with this status
Iteration(status) ==
  /\ mi <= Len(source_files)
  /\ FileStatus(source_files[mi], target_region) = status
  /\ mosaic' = MosaicStep(mosaic, source_files[mi], target_region, mnx, mny)
  /\ mi' = mi + 1
  /\ UNCHANGED <<mpc, source_files, target_region, mnx, mny>>
  /\ UNCHANGED <<rvars, hvars, tvars, fvars, avars, cvars, lvars>>

\* "if not os.path.exists(src_fn): continue"
MosaicSkipMissing ==
  /\ mpc = "loop"
  /\ Iteration("missing")

\* "if data is None: continue"
MosaicSkipUnreadable ==
  /\ mpc = "loop"
  /\ Iteration("unreadable")

\* the overlap check
MosaicSkipOutside ==
  /\ mpc = "loop"
  /\ Iteration("outside")

\* an exception in the try-block, logged
MosaicFileError ==
  /\ mpc = "loop"
  /\ Iteration("error")

\* interpolate and merge
MosaicMerge ==
  /\ mpc = "loop"
  /\ Iteration("patch")

\* "return mosaic"
MosaicReturn ==
  /\ mpc = "loop"
  /\ mi > Len(source_files)
  /\ mpc' = "done"
  /\ UNCHANGED <<source_files, target_region, mnx, mny, mi, mosaic>>
  /\ UNCHANGED <<rvars, hvars, tvars, fvars, avars, cvars, lvars>>

MosaicNext ==
  \/ MosaicSkipMissing
  \/ MosaicSkipUnreadable
  \/ MosaicSkipOutside
  \/ MosaicFileError
  \/ MosaicMerge
  \/ MosaicReturn

SpecMosaic == MosaicInit /\ [][MosaicNext]_vars

(***************************************************************************)
(* VerticalTransform: construction, then _vertical_transform               *)
(***************************************************************************)
\* the datum inputs of the runs: a tidal surface by name, an ellipsoidal
\* frame, mean sea level, an orthometric datum, the hub frame, and an input
\* no table resolves
FrameInputs ==
  {<<"m","l","l","w">>, <<"4","9","7","9">>, <<"5","7","1","4">>,
   <<"5","7","0","3">>, <<"6","3","1","9">>, <<"b","o","g","u","s">>}

GeoidInputs == {NONE, <<"g","2","0","1","2","b">>}

EpochInputs == {NoEpoch, 2010}

\* (ny, nx) of the runs
ShapeInputs == {<<1, 2>>}

Request(shape, e_in, e_out, g_in, g_out, t_in, t_out) ==
  [region |-> Region, nx |-> shape[2], ny |-> shape[1],
   epsg_in |-> e_in, epsg_out |-> e_out, geoid_in |-> g_in, geoid_out |-> g_out,
   epoch_in |-> t_in, epoch_out |-> t_out]

Requests ==
  {Request(shape, e_in, e_out, g_in, g_out, t_in, t_out) :
     shape \in ShapeInputs, e_in \in FrameInputs, e_out \in FrameInputs,
     g_in \in GeoidInputs, g_out \in GeoidInputs,
     t_in \in EpochInputs, t_out \in EpochInputs}

\* the request of the opposite direction
Swapped(rq) ==
  [rq EXCEPT !.epsg_in = rq.epsg_out, !.epsg_out = rq.epsg_in,
             !.geoid_in = rq.geoid_out, !.geoid_out = rq.geoid_in,
             !.epoch_in = rq.epoch_out, !.epoch_out = rq.epoch_in]

\* the (provider, name) pairs the two legs of a transform fetch
KeysOf(leg1, leg2) == Range(leg1.fetches) \cup Range(leg2.fetches)

FetchKeys(slf) == KeysOf(Leg1(slf, <<>>), Leg2(slf, <<>>))

RequestKeys(rq) == FetchKeys(NewTransform(rq)) \cup FetchKeys(NewTransform(Swapped(rq)))

\* what a fetch can find: nothing, grids that cover Region, grids that do not
FetchOutcomes == {"empty", "covering", "elsewhere"}

\* the grids that cover Region, per name: 0.3 for a tidal separation, 1.1 for
\* the sea surface topography, -26.0 for g2018, another geoid in two files
CoveringFiles(key) ==
  IF key[2] = Tss THEN <<SrcConst(Rat(11, 10))>>
  ELSE IF key[2] = G2018 THEN <<SrcConst(Int2Rat(0 - 26))>>
  ELSE IF key[1] = VDatum THEN <<SrcConst(Rat(3, 10))>>
  ELSE <<SrcEast, SrcConst(Int2Rat(0 - 25))>>

FilesFor(key, outcome) ==
  IF outcome = "empty" THEN <<>>
  ELSE IF outcome = "covering" THEN CoveringFiles(key)
  ELSE <<SrcFar>>

WorldOf(found) == [key \in DOMAIN found |-> FilesFor(key, found[key])]

WorldsOver(keys) == {WorldOf(found) : found \in [keys -> FetchOutcomes]}

TransformInit ==
  /\ pc = "new"
  /\ req \in Requests
  /\ world \in WorldsOver(RequestKeys(req))
  /\ self = NullSelf
  /\ grid_1 = <<>> /\ grid_2 = <<>> /\ total_shift = <<>>
  /\ desc_1 = "" /\ desc_2 = ""
  /\ fetchLog = <<>> /\ warnLog = <<>> /\ htdpLog = <<>> /\ legs = <<>>
  /\ RIdle /\ MIdle /\ HIdle /\ FIdle /\ AIdle /\ CIdle /\ LIdle

\* VerticalTransform(...): both frames resolve
Construct ==
  /\ pc = "new"
  /\ self' = NewTransform(req)
  /\ pc' = "ready"
  /\ UNCHANGED <<req, world, grid_1, grid_2, total_shift, desc_1, desc_2,
                 fetchLog, warnLog, htdpLog, legs>>
  /\ UNCHANGED <<rvars, mvars, hvars, fvars, avars, cvars, lvars>>

\* "total_shift = np.zeros(...)" and the identity return
IdentityReturn ==
  /\ pc = "ready"
  /\ IsIdentity(self)
  /\ total_shift' = Zeros(self.ny, self.nx)
  /\ pc' = "done"
  /\ UNCHANGED <<req, world, self, grid_1, grid_2, desc_1, desc_2,
                 fetchLog, warnLog, htdpLog, legs>>
  /\ UNCHANGED <<rvars, mvars, hvars, fvars, avars, cvars, lvars>>

Logged(res) ==
  /\ fetchLog' = Append(fetchLog, res.fetches)
  /\ warnLog' = warnLog \o res.warnings
  /\ htdpLog' = htdpLog \o res.htdp

ToHubWith(res) ==
  /\ grid_1' = res.grid
  /\ desc_1' = res.desc
  /\ total_shift' = Accumulate(Zeros(self.ny, self.nx), res.grid)
  /\ Logged(res)

\* Leg 1 and "if np.any(grid_1): total_shift += grid_1"
StepToHub ==
  /\ pc = "ready"
  /\ ~IsIdentity(self)
  /\ ToHubWith(Leg1(self, world))
  /\ legs' = Append(legs, "to_hub")
  /\ pc' = "leg1"
  /\ UNCHANGED <<req, world, self, grid_2, desc_2>>
  /\ UNCHANGED <<rvars, mvars, hvars, fvars, avars, cvars, lvars>>

FromHubWith(res) ==
  /\ grid_2' = res.grid
  /\ desc_2' = res.desc
  /\ total_shift' = Accumulate(total_shift, res.grid)
  /\ Logged(res)

\* Leg 2 and "if np.any(grid_2): total_shift += grid_2"
StepFromHub ==
  /\ pc = "leg1"
  /\ FromHubWith(Leg2(self, world))
  /\ legs' = Append(legs, "from_hub")
  /\ pc' = "leg2"
  /\ UNCHANGED <<req, world, self, grid_1, desc_1>>
  /\ UNCHANGED <<rvars, mvars, hvars, fvars, avars, cvars, lvars>>

\* "return total_shift, 0.0"
Return ==
  /\ pc = "leg2"
  /\ pc' = "done"
  /\ UNCHANGED <<req, world, self, grid_1, grid_2, total_shift, desc_1, desc_2,
                 fetchLog, warnLog, htdpLog, legs>>
  /\ UNCHANGED <<rvars, mvars, hvars, fvars, avars, cvars, lvars>>

Next ==
  \/ Construct
  \/ IdentityReturn
  \/ StepToHub
  \/ StepFromHub
  \/ Return

Spec == TransformInit /\ [][Next]_vars

(***************************************************************************)
(* HTDP._read_grid as a loop over the lines of the output file             *)
(***************************************************************************)
\* a line of the header: no point tag
HeaderLine ==
  <<" ","H","T","D","P"," ","O","U","T","P","U","T">>

\* point (x 0, y 0), height 1.25
LinePnt00 ==
  <<" ","4","1",".","5"," ","-","7","1"," ","1",".","2","5"," ","\"","P","N","T","_","0","_","0","\"">>

\* point (x 1, y 0), height -0.5, the tag stuck to the height
LinePnt10 ==
  <<"4","1",".","5"," ","-","7","0"," ","-","0",".","5","\"","P","N","T","_","1","_","0","\"">>

\* point (x 0, y 1), height 2.0, behind a * warning
LinePnt01 ==
  <<"*"," ","4","2"," ","-","7","1"," ","2",".","0"," ","\"","P","N","T","_","0","_","1","\"">>

\* point (x -1, y 0): a negative index counts from the end
LineNegative ==
  <<"4","1",".","5"," ","-","7","0"," ","3"," ","\"","P","N","T","_","-","1","_","0","\"">>

\* point (x 2, y 2): outside every shape of the model
LineOutside ==
  <<"4","3"," ","-","6","9"," ","4"," ","\"","P","N","T","_","2","_","2","\"">>

\* a height that is no float: ValueError, the line is skipped
LineStars ==
  <<"4","1",".","5"," ","-","7","1"," ","*","*","*","*"," ","\"","P","N","T","_","0","_","0","\"">>

\* a tag without its second index: IndexError, the line is skipped
LineShortTag ==
  <<"4","1",".","5"," ","-","7","1"," ","5"," ","\"","P","N","T","_","0","\"">>

PointLines ==
  {LinePnt00, LinePnt10, LinePnt01, LineNegative, LineOutside, LineStars, LineShortTag}

\* "for _ in range(5)": the lines echoed as the header when verbose
HeaderEcho == 5

\* an output file starts with its header or, cut short, with its points
Headers == {<<>>, [i \in 1..HeaderEcho |-> HeaderLine]}

\* shape = (rows, cols)
Shapes == {<<1, 1>>, <<1, 2>>, <<2, 1>>}

HtdpInit ==
  /\ hpc = "open"
  /\ \E header \in Headers, body \in SeqsUpTo(PointLines, MaxLines) : hlines = header \o body
  /\ hshape \in Shapes
  /\ hverbose \in BOOLEAN
  /\ hpos = 0 /\ hgrid = <<>> /\ points_found = 0 /\ parsed = <<>>
  /\ RIdle /\ MIdle /\ TIdle /\ FIdle /\ AIdle /\ CIdle /\ LIdle

\* a count check against the rows only
expected_rows == hshape[1]

expected_points == hshape[1] * hshape[2]

\* "grid = np.zeros(shape)", open the file, echo the header when verbose
HtdpOpen ==
  /\ hpc = "open"
  /\ hgrid' = Zeros(hshape[1], hshape[2])
  /\ hpos' = IF hverbose THEN MinOf({HeaderEcho, Len(hlines)}) ELSE 0
  /\ hpc' = "read"
  /\ UNCHANGED <<hlines, hshape, hverbose, points_found, parsed>>
  /\ UNCHANGED <<rvars, mvars, tvars, fvars, avars, cvars, lvars>>

\* the tuple read from line idx goes through the try-block of the loop
TakePoint(idx, ptuple, stored) ==
  /\ InBounds(hshape, ptuple.y_idx, ptuple.x_idx) = stored
  /\ hgrid' = IF stored
              THEN [hgrid EXCEPT ![NpIndex(hshape[1], ptuple.y_idx)]
                                  [NpIndex(hshape[2], ptuple.x_idx)] = ptuple.eht]
              ELSE hgrid
  /\ points_found' = IF stored THEN points_found + 1 ELSE points_found
  /\ parsed' = Append(parsed, <<ptuple.x_idx, ptuple.y_idx>>)
  /\ hpos' = idx

TakeNext(idx, stored) ==
  /\ idx # 0
  /\ TakePoint(idx, ReadLine(hlines[idx]), stored)
  /\ UNCHANGED <<hpc, hlines, hshape, hverbose>>
  /\ UNCHANGED <<rvars, mvars, tvars, fvars, avars, cvars, lvars>>

\* "grid[ptuple[1], ptuple[0]] = ptuple[4]; points_found += 1"
HtdpStore ==
  /\ hpc = "read"
  /\ TakeNext(next_point(hlines, hpos), TRUE)

\* "except IndexError: logger.error(...)"
HtdpIndexError ==
  /\ hpc = "read"
  /\ TakeNext(next_point(hlines, hpos), FALSE)

EndOfFile(idx, short) ==
  /\ idx = 0
  /\ (points_found < expected_points) = short
  /\ hpc' = IF short THEN "exit" ELSE "returned"
  /\ UNCHANGED <<hlines, hshape, hverbose, hpos, hgrid, points_found, parsed>>
  /\ UNCHANGED <<rvars, mvars, tvars, fvars, avars, cvars, lvars>>

\* "if points_found < expected_points: ... sys.exit(1)"
HtdpExit ==
  /\ hpc = "read"
  /\ EndOfFile(next_point(hlines, hpos), TRUE)

\* "return grid"
HtdpReturn ==
  /\ hpc = "read"
  /\ EndOfFile(next_point(hlines, hpos), FALSE)

HtdpNext ==
  \/ HtdpOpen
  \/ HtdpStore
  \/ HtdpIndexError
  \/ HtdpExit
  \/ HtdpReturn

SpecHtdp == HtdpInit /\ [][HtdpNext]_vars

(***************************************************************************)
(* Datums: a lookup by name or identifier, then the frame's category and   *)
(* default geoid                                                           *)
(***************************************************************************)
ResolveInit ==
  /\ rpc = "query"
  /\ rquery \in Queries
  /\ rframe = NoFrame /\ rtype = "none" /\ rgeoid = NONE /\ rinit = NONE
  /\ MIdle /\ HIdle /\ TIdle /\ FIdle /\ AIdle /\ CIdle /\ LIdle

\* Datums.get_vdatum_by_name(datum_name)
Resolve ==
  /\ rpc = "query"
  /\ rframe' = get_vdatum_by_name(rquery)
  /\ rpc' = "resolved"
  /\ UNCHANGED <<rquery, rtype, rgeoid, rinit>>
  /\ UNCHANGED <<mvars, hvars, tvars, fvars, avars, cvars, lvars>>

\* Datums.get_default_geoid(epsg)
DefaultGeoid ==
  /\ rpc = "resolved"
  /\ rgeoid' = get_default_geoid(rframe)
  /\ rpc' = "geoid"
  /\ UNCHANGED <<rquery, rframe, rtype, rinit>>
  /\ UNCHANGED <<mvars, hvars, tvars, fvars, avars, cvars, lvars>>

\* Datums.get_frame_type(epsg)
FrameType ==
  /\ rpc = "geoid"
  /\ rtype' = get_frame_type(rframe)
  /\ rpc' = "typed"
  /\ UNCHANGED <<rquery, rframe, rgeoid, rinit>>
  /\ UNCHANGED <<mvars, hvars, tvars, fvars, avars, cvars, lvars>>

\* VerticalTransform.__init__ on the frame the command line resolved:
\* "self.epsg_in = Datums.get_vdatum_by_name(str(epsg_in))" and
\* "self.ref_in = Datums.get_frame_type(self.epsg_in)"
Reresolve ==
  /\ rpc = "typed"
  /\ rinit' = Reresolved(get_vdatum_by_name(PyStr(rframe)))
  /\ rpc' = "init"
  /\ UNCHANGED <<rquery, rframe, rtype, rgeoid>>
  /\ UNCHANGED <<mvars, hvars, tvars, fvars, avars, cvars, lvars>>

ResolveNext ==
  \/ Resolve
  \/ DefaultGeoid
  \/ FrameType
  \/ Reresolve

SpecResolve == ResolveInit /\ [][ResolveNext]_vars

(***************************************************************************)
(* Properties of VerticalTransform._vertical_transform (Spec)              *)
(***************************************************************************)
\* every cell of a (ny, nx) grid of the request holds v
AllCells(grid, v) == grid = [r \in 1..req.ny |-> [c \in 1..req.nx |-> v]]

Started == pc \in {"leg1", "leg2", "done"}

SameEndpoints ==
  /\ self.epsg_in = self.epsg_out
  /\ self.epoch_in = self.epoch_out
  /\ self.geoid_in = self.geoid_out

\* C1: with input frame = output frame, equal epochs and equal geoids the
\* transform returns an all-zero (ny, nx) grid, and neither leg runs nor is
\* any grid fetched or the HTDP bridge called.
C1_IdentityShortCircuit ==
  (Started /\ SameEndpoints) =>
    /\ pc = "done"
    /\ AllCells(total_shift, Zero)
    /\ legs = <<>> /\ fetchLog = <<>> /\ htdpLog = <<>>
    /\ grid_1 = <<>> /\ grid_2 = <<>>

\* an identity run on a tidal surface with a geoid override, whose legs
\* would have fetched grids that are there
C1_Witness ==
  /\ pc = "done" /\ SameEndpoints
  /\ self.ref_in = "surface" /\ self.geoid_in # NONE
  /\ \E key \in DOMAIN world : world[key] = CoveringFiles(key)

DefaultRequest ==
  /\ req.geoid_in = NONE /\ req.geoid_out = NONE
  /\ req.epoch_in = NoEpoch /\ req.epoch_out = NoEpoch

\* C2: with default epochs and no geoid overrides, and the same files behind
\* the same (provider, name), the shift from A to B is the cell-wise negation
\* of the shift from B to A.
C2_ChainSymmetry ==
  (pc = "done" /\ DefaultRequest) =>
    total_shift = [r \in 1..req.ny |-> [c \in 1..req.nx |->
                     RatNeg(ShiftOf(NewTransform(Swapped(req)), world)[r][c])]]

\* a tidal surface to an orthometric datum with a shift that is not zero
C2_Witness ==
  /\ pc = "done" /\ DefaultRequest
  /\ self.ref_in = "surface" /\ self.ref_out = "cdn"
  /\ \E rc \in Cells(total_shift) :
       ~IsNaN(total_shift[rc[1]][rc[2]]) /\ total_shift[rc[1]][rc[2]] # Zero

\* the scenario of C3: "mllw" to NAVD88 (5703) with its default geoid, the
\* fetched grids constant 0.3 (tidal separation), 1.1 (tss) and -26.0 (g2018)
ScenarioValue(name) ==
  IF name = Tss THEN Rat(11, 10)
  ELSE IF name = G2018 THEN Int2Rat(0 - 26)
  ELSE Rat(3, 10)

C3_Scenario ==
  /\ pc = "done"
  /\ req.epsg_in = <<"m","l","l","w">> /\ req.epsg_out = <<"5","7","0","3">>
  /\ req.geoid_in = NONE /\ req.geoid_out = NONE
  /\ {key[2] : key \in DOMAIN world} = {<<"m","l","l","w">>, Tss, G2018}
  /\ \A key \in DOMAIN world : world[key] = <<SrcConst(ScenarioValue(key[2]))>>

\* C3 as stated: in the scenario every cell of the result is
\* 0.3 + 1.1 + (-26.0) = -24.6.
C3_ScenarioAsStated == C3_Scenario => AllCells(total_shift, Rat(0 - 246, 10))

\* C3: in the scenario the to-hub leg is 0.3 + 1.1 + (-26.0) = -24.6, the
\* from-hub leg subtracts the geoid, -(-26.0) = 26.0, and every cell of the
\* result is their sum 1.4.
C3_ScenarioShift ==
  C3_Scenario =>
    /\ AllCells(grid_1, Rat(0 - 246, 10))
    /\ AllCells(grid_2, Int2Rat(26))
    /\ AllCells(total_shift, Rat(14, 10))

C3_Witness ==
  /\ C3_Scenario /\ legs = <<"to_hub", "from_hub">>
  /\ Len(fetchLog[1]) = 3 /\ Len(fetchLog[2]) = 1

CellSum(a, b) == IF IsNaN(a) \/ IsNaN(b) THEN NaN ELSE RatAdd(a, b)

\* C6: when the identity short-circuit does not apply, the result is the
\* cell-wise sum of the to-hub grid and the from-hub grid, and a cell that is
\* NaN in either leg grid is NaN in the result.
C6_LegSum ==
  (pc = "done" /\ ~SameEndpoints) =>
    /\ total_shift = [r \in 1..req.ny |-> [c \in 1..req.nx |->
                        CellSum(grid_1[r][c], grid_2[r][c])]]
    /\ \A r \in 1..req.ny, c \in 1..req.nx :
         (IsNaN(grid_1[r][c]) \/ IsNaN(grid_2[r][c])) => IsNaN(total_shift[r][c])

\* a NaN to-hub leg met by a from-hub leg with a shift
C6_Witness ==
  /\ pc = "done" /\ ~SameEndpoints
  /\ \E r \in 1..req.ny, c \in 1..req.nx :
       /\ IsNaN(grid_1[r][c])
       /\ ~IsNaN(grid_2[r][c]) /\ grid_2[r][c] # Zero

\* what one fetch adds to a leg: zeros when the fetch finds no file
Contribution(key) ==
  IF world[key] = <<>> THEN [r \in 1..req.ny |-> [c \in 1..req.nx |-> Zero]]
  ELSE load_and_interpolate(world[key], req.region, req.nx, req.ny)

RECURSIVE SumOf(_, _)
SumOf(keys, i) ==
  IF i > Len(keys) THEN [r \in 1..req.ny |-> [c \in 1..req.nx |-> Zero]]
  ELSE GridAdd(Contribution(keys[i]), SumOf(keys, i + 1))

Warned(keys) == \A i \in DOMAIN keys : world[keys[i]] = <<>> => keys[i][2] \in Range(warnLog)

\* C7: a fetch that finds no file for a named geoid or tidal correction adds
\* an all-zero (ny, nx) grid to its leg (to-hub: the sum of the fetched
\* grids, from-hub: its negation) and a warning with the name is recorded.
C7_ZeroSubstitution ==
  /\ pc = "leg1" => grid_1 = SumOf(fetchLog[1], 1) /\ Warned(fetchLog[1])
  /\ pc = "leg2" => grid_2 = GridNeg(SumOf(fetchLog[2], 1)) /\ Warned(fetchLog[2])

\* a run that reaches its return although one fetch of the to-hub leg found
\* nothing, while another found a grid
C7_Witness ==
  /\ pc = "done" /\ warnLog # <<>> /\ Len(fetchLog) = 2
  /\ \E key \in Range(fetchLog[1]) : world[key] = <<>>
  /\ \E key \in Range(fetchLog[1]) : world[key] # <<>>
  /\ \E rc \in Cells(total_shift) :
       ~IsNaN(total_shift[rc[1]][rc[2]]) /\ total_shift[rc[1]][rc[2]] # Zero

\* C9: when an ellipsoidal leg is required and the HTDP bridge fails, no
\* shift grid is returned for the request.
C9_BridgeFailureFatal == pc = "done" => "raised" \notin Range(htdpLog)

(***************************************************************************)
(* Properties of GridEngine.load_and_interpolate (SpecMosaic)              *)
(***************************************************************************)
InLoop == mpc \in {"loop", "done"}

\* what the i-th file of source_files yields for the target grid
OutcomeAt(i) == FileOutcome(source_files[i], target_region, mnx, mny)

\* what the first n files yield
Outcomes(n) == [i \in 1..n |-> OutcomeAt(i)]

\* an outcome yields a value that is not NaN at cell (r, c)
Yields(outcome, r, c) == outcome.status = "patch" /\ ~IsNaN(outcome.patch[r][c])

FirstOutcome(outs, hits, r, c) == IF hits = {} THEN NaN ELSE outs[MinOf(hits)].patch[r][c]

\* the value at (r, c) of the earliest of the outcomes that yields one
FirstValid(outs, r, c) ==
  FirstOutcome(outs, {i \in DOMAIN outs : Yields(outs[i], r, c)}, r, c)

EarliestIn(outs) == \A r \in 1..mny, c \in 1..mnx : mosaic[r][c] = FirstValid(outs, r, c)

C4_EarliestSource == InLoop => EarliestIn(Outcomes(mi - 1))

WrittenFrom(outcome) ==
  \A r \in 1..mny, c \in 1..mnx :
    /\ ~IsNaN(mosaic[r][c]) => mosaic'[r][c] = mosaic[r][c]
    /\ mosaic'[r][c] # mosaic[r][c] =>
         /\ IsNaN(mosaic[r][c])
         /\ Yields(outcome, r, c)
         /\ mosaic'[r][c] = outcome.patch[r][c]

C4_WriteOnce == (mpc = "loop" /\ mi <= Len(source_files)) => WrittenFrom(OutcomeAt(mi))

\* C4: the merge is first-valid-source-wins: a mosaic cell is written only
\* when it is still NaN and the current source's interpolated value is not
\* NaN, a cell that holds a value never changes, and so every cell holds the
\* value of the earliest source in list order that yields one there.
C4_FirstValidWins == []C4_EarliestSource /\ [][C4_WriteOnce]_vars

\* two sources yield different values at a cell; the first one's is kept
C4_Witness ==
  /\ mpc = "done" /\ Len(source_files) = 2
  /\ \E r \in 1..mny, c \in 1..mnx :
       /\ Yields(OutcomeAt(1), r, c) /\ Yields(OutcomeAt(2), r, c)
       /\ OutcomeAt(1).patch[r][c] # OutcomeAt(2).patch[r][c]
       /\ mosaic[r][c] = OutcomeAt(1).patch[r][c]

\* the coordinate extent of a file that is there and readable contains (y, x)
Covers(f, y, x) ==
  /\ f.exists /\ f.readable
  /\ RatLe(SeqMin(read_raster(f)[1]), x) /\ RatLe(x, SeqMax(read_raster(f)[1]))
  /\ RatLe(SeqMin(read_raster(f)[2]), y) /\ RatLe(y, SeqMax(read_raster(f)[2]))

\* C5: the mosaic never extrapolates: the result is NaN at every target cell
\* whose sample point lies in the coordinate extent of no source.
C5_NoExtrapolation ==
  mpc = "done" =>
    \A r \in 1..mny, c \in 1..mnx :
      (\A i \in DOMAIN source_files :
         ~Covers(source_files[i], TargetY(target_region, mny)[r],
                 TargetX(target_region, mnx)[c]))
      => IsNaN(mosaic[r][c])

(***************************************************************************)
(* Properties of HTDP._read_grid (SpecHtdp)                                *)
(***************************************************************************)
\* C8: whenever fewer than rows * cols points are parsed from the output,
\* reading the grid ends in the point-count exit and returns no grid; a
\* grid is returned only with at least rows * cols points stored.
C8_PointCountShortfall ==
  /\ (hpc \in {"exit", "returned"} /\ Len(parsed) < hshape[1] * hshape[2]) => hpc = "exit"
  /\ hpc = "returned" => points_found >= hshape[1] * hshape[2]

\* one point short of a two-cell grid
C8_Witness ==
  /\ hpc = "exit"
  /\ hshape[1] * hshape[2] = 2
  /\ Len(parsed) = 1 /\ points_found = 1

(***************************************************************************)
(* Properties of Datums.get_vdatum_by_name (SpecResolve)                   *)
(***************************************************************************)
\* the category tables in the order tidal-surface, ellipsoidal, orthometric
TableOrder == <<SURFACES, HTDP, CDN>>

IdTables(n) == {k \in DOMAIN TableOrder : \E i \in DOMAIN TableOrder[k] : TableOrder[k][i].epsg = n}

NameRows(k, q) ==
  {i \in DOMAIN TableOrder[k] : Contains(LowerStr(q), LowerStr(TableOrder[k][i].name))}

NameTables(q) == {k \in DOMAIN TableOrder : NameRows(k, q) # {}}

\* identifiers first in every table, then names, table by table
IdThenName(q) ==
  IF q = NONE THEN NoFrame
  ELSE IF ParseInt(q).ok /\ IdTables(ParseInt(q).val) # {} THEN ParseInt(q).val
  ELSE IF NameTables(q) = {} THEN NoFrame
  ELSE TableOrder[MinOf(NameTables(q))][MinOf(NameRows(MinOf(NameTables(q)), q))].epsg

\* C10: an input is resolved to the identifier it denotes if any table holds
\* that identifier; otherwise to the first display name, in the table order
\* tidal-surface, ellipsoidal, orthometric, that contains it regardless of
\* case; otherwise to NotFound.
C10_IdentifierPrecedence == rpc # "query" => rframe = IdThenName(rquery)

\* an identifier of the last table, written as int() accepts it: no earlier
\* table holds it and no display name contains it
C10_Witness ==
  /\ rpc = "typed"
  /\ rquery = <<" ","5","7","0","3">>
  /\ IdTables(5703) = {3} /\ NameTables(rquery) = {}
  /\ rframe = 5703 /\ rtype = "cdn"

(***************************************************************************)
(* Properties of the frame categories (SpecResolve)                        *)
(***************************************************************************)
CategoryNames == <<"surface", "htdp", "cdn">>

TableIds(k) == {TableOrder[k][i].epsg : i \in DOMAIN TableOrder[k]}

\* C11: the identifier sets of the tidal-surface, ellipsoidal and orthometric
\* tables are pairwise disjoint, and for every identifier the lookup returns,
\* get_frame_type returns the category of the one table that holds it, never
\* None.
C11_ExactlyOneCategory ==
  /\ \A j \in DOMAIN TableOrder : \A k \in DOMAIN TableOrder :
       j # k => TableIds(j) \cap TableIds(k) = {}
  /\ rpc = "typed" /\ rframe # NoFrame =>
       /\ rtype \in Range(CategoryNames)
       /\ \A k \in DOMAIN TableOrder : (rframe \in TableIds(k)) <=> (rtype = CategoryNames[k])

\* a display name found in the orthometric table has been typed
C11_Witness ==
  /\ rpc = "typed"
  /\ ~ParseInt(rquery).ok
  /\ rframe \in TableIds(3)
  /\ rtype = "cdn"

(***************************************************************************)
(* Properties of unresolved endpoints and of the leg order (Spec)          *)
(***************************************************************************)
Unresolved(epsg) == epsg = NoFrame

\* C12: when neither the input nor the output frame is resolved, the
\* transform returns no shift grid.
C12_BothUnresolvedFatal ==
  (Unresolved(self.epsg_in) /\ Unresolved(self.epsg_out)) => pc # "done"

BothLegs == <<"to_hub", "from_hub">>

OnlyInputUnresolved ==
  Started /\ Unresolved(self.epsg_in) /\ ~Unresolved(self.epsg_out)

OnlyOutputUnresolved ==
  Started /\ ~Unresolved(self.epsg_in) /\ Unresolved(self.epsg_out)

LegDone(n) == pc \in {"leg2", "done"} \/ (n = 1 /\ pc = "leg1")

\* the leg of an unresolved endpoint adds nothing and fetches nothing
SkippedLeg(n, grid, desc) ==
  LegDone(n) => AllCells(grid, Zero) /\ desc = "" /\ fetchLog[n] = <<>>

\* a step of the run that calls neither the bridge nor any fetch
QuietStep == htdpLog' = htdpLog /\ warnLog' = warnLog /\ fetchLog' = Append(fetchLog, <<>>)

C13_Legs ==
  /\ OnlyInputUnresolved =>
       /\ legs # <<>>
       /\ SkippedLeg(1, grid_1, desc_1)
       /\ LegDone(2) => /\ desc_2 # ""
                        /\ grid_2 = GridNeg(SumOf(fetchLog[2], 1))
                        /\ total_shift = grid_2
  /\ OnlyOutputUnresolved =>
       /\ legs # <<>>
       /\ desc_1 # ""
       /\ grid_1 = SumOf(fetchLog[1], 1)
       /\ SkippedLeg(2, grid_2, desc_2)
       /\ LegDone(2) => total_shift = grid_1
  /\ pc = "done" /\ (OnlyInputUnresolved \/ OnlyOutputUnresolved) => legs = BothLegs

C13_Steps ==
  /\ pc = "ready" /\ pc' = "leg1" /\ Unresolved(self.epsg_in) => QuietStep
  /\ pc = "leg1" /\ pc' = "leg2" /\ Unresolved(self.epsg_out) => QuietStep

\* C13: when exactly one endpoint is unresolved the run goes through both
\* legs to its return; the leg of the unresolved endpoint is an all-zero
\* grid obtained without any fetch or bridge call, the leg of the resolved
\* endpoint is the (negated, from the hub) sum of the grids it fetched, and
\* the returned shift is the resolved leg's grid.
C13_OneUnresolved == []C13_Legs /\ [][C13_Steps]_vars

\* a finished run from an unresolved name to a tidal surface whose grids
\* were found, so that the returned shift is not zero
C13_Witness ==
  /\ pc = "done"
  /\ Unresolved(self.epsg_in) /\ self.ref_out = "surface"
  /\ fetchLog[1] = <<>> /\ fetchLog[2] # <<>>
  /\ AllCells(grid_1, Zero)
  /\ total_shift = grid_2 /\ ~AllCells(total_shift, Zero)

PcRank ==
  CASE pc = "new" -> 0 [] pc = "ready" -> 1 [] pc = "leg1" -> 2
    [] pc = "leg2" -> 3 [] pc = "done" -> 4

C14_Position ==
  /\ pc \in {"new", "ready"} => legs = <<>>
  /\ pc = "leg1" => legs = <<"to_hub">>
  /\ pc = "leg2" => legs = BothLegs
  /\ pc = "done" => legs = BothLegs \/ (legs = <<>> /\ SameEndpoints)
  /\ legs # <<>> => ~SameEndpoints

C14_Forward ==
  /\ pc' # pc => PcRank' > PcRank
  /\ legs' # legs => \/ legs = <<>> /\ legs' = <<"to_hub">>
                     \/ legs = <<"to_hub">> /\ legs' = BothLegs
  /\ pc' = "done" /\ pc # "done" => pc = "leg2" \/ (pc = "ready" /\ SameEndpoints)

\* C14: a run never steps back; unless it is an identity short-circuit the
\* to-hub leg is computed once and is complete before the from-hub leg
\* starts, the from-hub leg is computed once, and the return follows both
\* legs; only the identity short-circuit returns without both legs.
C14_LegOrder == []C14_Position /\ [][C14_Forward]_vars

\* a finished run with both legs, each of which fetched a grid
C14_Witness ==
  /\ pc = "done" /\ legs = BothLegs
  /\ fetchLog[1] # <<>> /\ fetchLog[2] # <<>>
  /\ ~SameEndpoints

AtPivot(epsg, epoch) == epsg = 6319 /\ epoch = 1997

NoOp(res, desc) ==
  /\ AllCells(res.grid, Zero)
  /\ res.desc = desc
  /\ res.fetches = <<>> /\ res.warnings = <<>> /\ res.htdp = <<>>

Categories == {"surface", "htdp", "cdn", "none"}

C15_Legs ==
  /\ LegDone(1) /\ legs # <<>> /\ AtPivot(self.epsg_in, self.epoch_in) =>
       /\ AllCells(grid_1, Zero) /\ desc_1 = "Already at Hub" /\ fetchLog[1] = <<>>
       /\ \A ref_type \in Categories : \A geoid \in GeoidInputs \cup {G2018} :
            NoOp(step_to_hub(self, world, self.epsg_in, ref_type, geoid, self.epoch_in),
                 "Already at Hub")
  /\ LegDone(2) /\ legs # <<>> /\ AtPivot(self.epsg_out, self.epoch_out) =>
       /\ AllCells(grid_2, Zero) /\ desc_2 = "Remain at Hub" /\ fetchLog[2] = <<>>
       /\ \A ref_type \in Categories : \A geoid \in GeoidInputs \cup {G2018} :
            NoOp(step_from_hub(self, world, self.epsg_out, ref_type, geoid, self.epoch_out),
                 "Remain at Hub")

C15_Steps ==
  /\ pc = "ready" /\ pc' = "leg1" /\ AtPivot(self.epsg_in, self.epoch_in) => QuietStep
  /\ pc = "leg1" /\ pc' = "leg2" /\ AtPivot(self.epsg_out, self.epoch_out) => QuietStep

\* C15: a to-hub or from-hub leg whose frame is the pivot (6319) at the
\* pivot's epoch (1997.0) returns an all-zero (ny, nx) grid with the fixed
\* description of a no-op, and neither fetches a grid nor calls the HTDP
\* bridge, whatever category and geoid it is given.
C15_AtPivotShortCircuit == []C15_Legs /\ [][C15_Steps]_vars

\* a finished run from the pivot, with a geoid override whose grid is on
\* disk, to a tidal surface: the first leg fetched nothing, the second did
C15_Witness ==
  /\ pc = "done" /\ legs = BothLegs
  /\ AtPivot(self.epsg_in, self.epoch_in) /\ self.geoid_in # NONE
  /\ desc_1 = "Already at Hub" /\ fetchLog[1] = <<>>
  /\ fetchLog[2] # <<>>

(***************************************************************************)
(* GridEngine.fill_nans on its own, with small decay distances             *)
(***************************************************************************)
FillValues == {NaN, Int2Rat(4), Int2Rat(0 - 6)}

\* grids up to MaxDim x MaxDim, and single rows long enough to hold cells
\* farther than MaxDim from any valid cell
FillShapes ==
  {<<ny, nx>> : ny \in 1..MaxDim, nx \in 1..MaxDim} \cup {<<1, nx>> : nx \in 1..(MaxDim + 2)}

DecayInputs == 0..MaxDim

FillInit ==
  /\ fpc = "call"
  /\ \E shape \in FillShapes : fdata \in [1..shape[1] -> [1..shape[2] -> FillValues]]
  /\ fdecay \in DecayInputs
  /\ fout = <<>>
  /\ RIdle /\ MIdle /\ HIdle /\ TIdle /\ AIdle /\ CIdle /\ LIdle

\* GridEngine.fill_nans(data, decay_pixels)
FillNans ==
  /\ fpc = "call"
  /\ fout' = fill_nans(fdata, fdecay)
  /\ fpc' = "returned"
  /\ UNCHANGED <<fdata, fdecay>>
  /\ UNCHANGED <<rvars, mvars, hvars, tvars, avars, cvars, lvars>>

FillNext ==
  \/ FillNans

SpecFill == FillInit /\ [][FillNext]_vars

(***************************************************************************)
(* Properties of GridEngine.fill_nans (SpecFill)                           *)
(***************************************************************************)
ValidCells(a) == {q \in Cells(a) : ~IsNaN(a[q[1]][q[2]])}

\* the squared distance from rc to the nearest valid cell of a
NearestDist2(a, rc) == MinOf({Dist2(rc, q) : q \in ValidCells(a)})

\* v * (D - d) / D with d the root of d2
Decayed(v, D, d2) == RatMul(v, RatDiv(RatSub(Int2Rat(D), Sqrt(d2)), Int2Rat(D)))

DecayRule(a, out, D, rc, d2) ==
  IF d2 <= D * D
  THEN \E q \in ValidCells(a) :
         Dist2(rc, q) = d2 /\ out[rc[1]][rc[2]] = Decayed(a[q[1]][q[2]], D, d2)
  ELSE out[rc[1]][rc[2]] = Zero

\* C16: with a decay distance D > 0, every NaN cell at distance d <= D from
\* the nearest non-NaN cell becomes that cell's value times (D - d) / D, and
\* every NaN cell farther than D becomes 0.
C16_DecayFill ==
  (fpc = "returned" /\ fdecay > 0 /\ ValidCells(fdata) # {}) =>
    \A rc \in Cells(fdata) :
      IsNaN(fdata[rc[1]][rc[2]]) =>
        DecayRule(fdata, fout, fdecay, rc, NearestDist2(fdata, rc))

\* a row with a decay distance of 2: one NaN cell next to a valid cell is
\* filled with half its value, another lies farther than 2 and is set to 0
C16_Witness ==
  /\ fpc = "returned" /\ fdecay = 2 /\ ValidCells(fdata) # {}
  /\ \E rc \in Cells(fdata) :
       /\ IsNaN(fdata[rc[1]][rc[2]])
       /\ NearestDist2(fdata, rc) = 1
       /\ fout[rc[1]][rc[2]] \in {Int2Rat(2), Int2Rat(0 - 3)}
  /\ \E rc \in Cells(fdata) :
       /\ IsNaN(fdata[rc[1]][rc[2]])
       /\ NearestDist2(fdata, rc) > 4
       /\ fout[rc[1]][rc[2]] = Zero

\* C17: with a decay distance of 0 every cell that was NaN in the input is
\* NaN in the output.
C17_ZeroDecayUnfilled ==
  (fpc = "returned" /\ fdecay = 0) =>
    \A rc \in Cells(fdata) : IsNaN(fdata[rc[1]][rc[2]]) => IsNaN(fout[rc[1]][rc[2]])

(***************************************************************************)
(* GridEngine.apply_vertical_shift on small rasters                        *)
(***************************************************************************)
ApplyShapes == {<<1, 1>>, <<1, 2>>, <<2, 1>>}

GridsOver(values) == UNION {[1..shape[1] -> [1..shape[2] -> values]] : shape \in ApplyShapes}

\* a raster with cells equal to -9999 and to its declared sentinel -5
DemValues == {Int2Rat(10), Int2Rat(0 - 9999), Int2Rat(0 - 5)}

ShiftValues == {NaN, Rat(3, 2), Zero}

MissingDem == [exists |-> FALSE, declared |-> FALSE, nodata |-> NaN, data |-> <<>>]

Dems ==
  {[exists |-> TRUE, declared |-> declared, nodata |-> Int2Rat(0 - 5), data |-> data] :
     declared \in BOOLEAN, data \in GridsOver(DemValues)}

\* a destination that is not there, or an earlier output
Destinations == {MissingDem, WrittenDem(Int2Rat(0 - 9999), <<<<Int2Rat(7)>>>>)}

ApplyInit ==
  /\ apc = "call"
  /\ asrc \in Dems \cup {MissingDem}
  /\ ashift \in GridsOver(ShiftValues)
  /\ adst \in Destinations
  /\ aret = NONE /\ alog = <<>>
  /\ RIdle /\ MIdle /\ HIdle /\ TIdle /\ FIdle /\ CIdle /\ LIdle

Returned(res) ==
  /\ aret' = res.ret
  /\ adst' = res.dst
  /\ alog' = res.log
  /\ apc' = "returned"
  /\ UNCHANGED <<asrc, ashift>>
  /\ UNCHANGED <<rvars, mvars, hvars, tvars, fvars, cvars, lvars>>

\* rasterio.open(src_dem) raises
ApplyOpenError ==
  /\ apc = "call"
  /\ ~asrc.exists
  /\ Returned(apply_vertical_shift(asrc, ashift, adst))

\* "raise ValueError(f"Dimension mismatch: ...")"
ApplyMismatch ==
  /\ apc = "call"
  /\ asrc.exists /\ Shape(asrc.data) # Shape(ashift)
  /\ Returned(apply_vertical_shift(asrc, ashift, adst))

\* the shift is applied and the destination written
ApplyWrite ==
  /\ apc = "call"
  /\ asrc.exists /\ Shape(asrc.data) = Shape(ashift)
  /\ Returned(apply_vertical_shift(asrc, ashift, adst))

ApplyNext ==
  \/ ApplyOpenError
  \/ ApplyMismatch
  \/ ApplyWrite

SpecApply == ApplyInit /\ [][ApplyNext]_vars

(***************************************************************************)
(* Properties of GridEngine.apply_vertical_shift (SpecApply)               *)
(***************************************************************************)
\* the raster's own sentinel, or -9999 when it declares none
Sentinel == IF asrc.declared THEN asrc.nodata ELSE Int2Rat(0 - 9999)

SameShape == Rows(asrc.data) = Rows(ashift) /\ Cols(asrc.data) = Cols(ashift)

CellRule(v, s, out) ==
  IF v # Sentinel /\ ~IsNaN(s) THEN out = RatAdd(v, s) ELSE out = Sentinel

C19_Step ==
  (apc = "call" /\ apc' = "returned" /\ asrc.exists /\ ~SameShape) =>
    /\ aret' = FALSE
    /\ alog' = <<"Dimension mismatch", <<Rows(asrc.data), Cols(asrc.data)>>,
                 <<Rows(ashift), Cols(ashift)>>>>
    /\ adst' = adst

\* C19: applying a shift grid whose shape differs from the raster's fails:
\* the error names both shapes, the call returns False, and the destination
\* is left as it was, absent or with its earlier content.
C19_MismatchFatal == [][C19_Step]_vars

\* a failed call on a 1 x 2 raster with a 2 x 1 shift, the earlier output
\* still in place
C19_Witness ==
  /\ apc = "returned" /\ asrc.exists
  /\ Shape(asrc.data) = <<1, 2>> /\ Shape(ashift) = <<2, 1>>
  /\ aret = FALSE /\ alog # <<>>
  /\ adst = WrittenDem(Int2Rat(0 - 9999), <<<<Int2Rat(7)>>>>)

(***************************************************************************)
(* transformez_cli called with --region, up to the VerticalTransform       *)
(***************************************************************************)
RegionArgs ==
  {<<"0", "/", "4", "/", "0", "/", "4">>,
   <<"0", "/", "2", "/", "-", "1", "/", "3">>,
   <<"0", "/", "4", "/", "0">>,
   <<"j", "u", "n", "k">>}

IncrementArgs ==
  {NONE, <<>>, <<"1">>, <<"2">>, <<"0">>, <<"-", "1">>, <<"0", ".", "5">>, <<"1", "0">>,
   <<"a", "b", "c">>, <<"/">>,
   <<"1", "/", "1">>, <<"2", "/", "1">>, <<"1", "/", "2">>, <<"0", ".", "5", "/", "2">>,
   <<"0", "/", "1">>, <<"1", "/", "0">>, <<"-", "1", "/", "-", "1">>, <<"1", "/", "-", "2">>,
   <<"a", "/", "1">>, <<"1", "/", "2", "/", "3">>, <<"1", "0", "/", "1">>, <<"3", "/", "1", "0">>}

CliInit ==
  /\ cpc = "args"
  /\ cargs \in [region : RegionArgs, increment : IncrementArgs]
  /\ cregion = NONE /\ cnx = 0 /\ cny = 0 /\ cexit = NONE
  /\ RIdle /\ MIdle /\ HIdle /\ TIdle /\ FIdle /\ AIdle /\ LIdle

Sizing == RegionAndSize(parse_region(cargs.region), cargs.increment)

CliUnchanged == UNCHANGED <<cargs, rvars, mvars, hvars, tvars, fvars, avars, lvars>>

\* "region_obj = these_regions[0]" raises on an empty list
CliRegionError ==
  /\ cpc = "args"
  /\ Sizing.at = "raised"
  /\ cpc' = "raised"
  /\ cexit' = Sizing.code
  /\ UNCHANGED <<cregion, cnx, cny>>
  /\ CliUnchanged

\* "logger.error(f'Invalid increment: ...'); sys.exit(1)"
CliInvalidIncrement ==
  /\ cpc = "args"
  /\ Sizing.at = "exit"
  /\ cpc' = "exit"
  /\ cregion' = parse_region(cargs.region)[1]
  /\ cexit' = Sizing.code
  /\ UNCHANGED <<cnx, cny>>
  /\ CliUnchanged

\* "vt = VerticalTransform(region=region_obj, nx=nx, ny=ny, ...)" raises
\* ZeroDivisionError in region_geo_transform
CliConstructError ==
  /\ cpc = "args"
  /\ Sizing.at = "sized"
  /\ GeoTransformRaises(Sizing.nx, Sizing.ny)
  /\ cpc' = "raised"
  /\ cregion' = parse_region(cargs.region)[1]
  /\ cnx' = Sizing.nx /\ cny' = Sizing.ny
  /\ cexit' = 1
  /\ CliUnchanged

\* "vt = VerticalTransform(region=region_obj, nx=nx, ny=ny, ...)"
CliConstruct ==
  /\ cpc = "args"
  /\ Sizing.at = "sized"
  /\ ~GeoTransformRaises(Sizing.nx, Sizing.ny)
  /\ cpc' = "constructed"
  /\ cregion' = parse_region(cargs.region)[1]
  /\ cnx' = Sizing.nx /\ cny' = Sizing.ny
  /\ UNCHANGED cexit
  /\ CliUnchanged

CliNext ==
  \/ CliRegionError
  \/ CliInvalidIncrement
  \/ CliConstructError
  \/ CliConstruct

SpecCli == CliInit /\ [][CliNext]_vars

(***************************************************************************)
(* Properties of the command line (SpecCli)                                *)
(***************************************************************************)
\* the increments of the arguments, when both are numbers
Increments ==
  IF cargs.increment = NONE THEN <<>>
  ELSE IF Contains(<<"/">>, cargs.increment)
  THEN ParseFloats(SplitOn(cargs.increment, "/", <<>>))
  ELSE <<ParseFloat(cargs.increment), ParseFloat(cargs.increment)>>

PositiveIncrements ==
  /\ Len(Increments) = 2
  /\ \A i \in 1..2 : Increments[i].ok /\ RatLt(Zero, Increments[i].val)

\* C20: a VerticalTransform is constructed only for a region that parses,
\* an increment made of positive numbers, and positive nx and ny.
C20_RejectedAtBoundary ==
  cpc = "constructed" =>
    /\ parse_region(cargs.region) # <<>>
    /\ PositiveIncrements
    /\ cnx > 0 /\ cny > 0

(***************************************************************************)
(* Properties of the tidal and orthometric legs (Spec)                     *)
(***************************************************************************)
Ran(n) == Len(legs) >= n

SurfaceName(epsg) == Entry(SURFACES, epsg).name

GeoidOrDefault(geoid) == IF geoid = NONE THEN G2018 ELSE geoid

\* the separation, TSS and geoid grids of a tidal surface, in fetch order
ThreeLegs(name, geoid) ==
  <<<<VDatum, name>>, <<VDatum, Tss>>, <<Proj, GeoidOrDefault(geoid)>>>>

\* the same without a separation grid for mean sea level itself
TidalLegs(name, geoid) ==
  IF name = <<"m", "s", "l">> THEN Tail(ThreeLegs(name, geoid)) ELSE ThreeLegs(name, geoid)

ToHubAgain(epsg, ref_type, geoid, epoch) == step_to_hub(self, world, epsg, ref_type, geoid, epoch).grid

FromHubAgain(epsg, ref_type, geoid, epoch) == step_from_hub(self, world, epsg, ref_type, geoid, epoch).grid

\* the surface leg n of the run fetched exactly the grids "keys"; going to
\* the hub it is their sum, coming from the hub the negation of their sum,
\* and so is the opposite leg of the same frame, geoid and epoch
TidalLegIs(n, epsg, geoid, epoch, keys) ==
  /\ fetchLog[n] = keys
  /\ LET sum == SumOf(keys, 1)
     IN /\ n = 1 => grid_1 = sum /\ FromHubAgain(epsg, "surface", geoid, epoch) = GridNeg(sum)
        /\ n = 2 => grid_2 = GridNeg(sum) /\ ToHubAgain(epsg, "surface", geoid, epoch) = sum

\* C21 as stated: every tidal-surface leg fetches three grids
C21_ThreeLegsAsStated ==
  /\ pc = "leg1" /\ self.ref_in = "surface" =>
       TidalLegIs(1, self.epsg_in, self.geoid_in, self.epoch_in,
                  ThreeLegs(SurfaceName(self.epsg_in), self.geoid_in))
  /\ pc = "leg2" /\ self.ref_out = "surface" =>
       TidalLegIs(2, self.epsg_out, self.geoid_out, self.epoch_out,
                  ThreeLegs(SurfaceName(self.epsg_out), self.geoid_out))

\* C21: for a tidal surface and any geoid argument, none included (then
\* g2018), the to-hub leg is the cell-wise sum of the fetched separation, TSS
\* and geoid grids, where mean sea level itself has no separation grid and
\* fetches two, and the from-hub leg is the negation of the same sum.
C21_TidalChain ==
  /\ pc = "leg1" /\ self.ref_in = "surface" =>
       TidalLegIs(1, self.epsg_in, self.geoid_in, self.epoch_in,
                  TidalLegs(SurfaceName(self.epsg_in), self.geoid_in))
  /\ pc = "leg2" /\ self.ref_out = "surface" =>
       TidalLegIs(2, self.epsg_out, self.geoid_out, self.epoch_out,
                  TidalLegs(SurfaceName(self.epsg_out), self.geoid_out))

\* from mllw with a geoid override to mean sea level without one, every
\* grid found: three grids fetched going to the hub, two coming from it
C21_Witness ==
  /\ pc = "done" /\ Ran(2)
  /\ self.ref_in = "surface" /\ self.ref_out = "surface"
  /\ self.geoid_in # NONE /\ self.geoid_out = NONE
  /\ Len(fetchLog[1]) = 3 /\ Len(fetchLog[2]) = 2
  /\ warnLog = <<>>
  /\ ~AllCells(grid_1, Zero) /\ ~AllCells(grid_2, Zero)

(***************************************************************************)
(* _step_to_hub and _step_from_hub called with the same arguments          *)
(***************************************************************************)
LegFrames == {5703, 3855, 1089, 5714, 6319, 4979}

LegGeoids == {NONE, G2018, <<"g","2","0","1","2","b">>}

LegEpochs == {HubEpoch, 2010}

LegKeys ==
  {<<Proj, G2018>>, <<Proj, <<"g","2","0","1","2","b">>>>, <<VDatum, Tss>>,
   <<VDatum, <<"m","l","l","w">>>>}

\* the VerticalTransform whose methods are called: a 1 x 2 grid over Region
LegSelf == NewTransform(Request(<<1, 2>>, NatStr(HUB_EPSG), NatStr(HUB_EPSG), NONE, NONE, NoEpoch, NoEpoch))

LegArgs(epsg, geoid, epoch) ==
  [epsg |-> epsg, ref_type |-> get_frame_type(epsg), geoid |-> geoid, epoch |-> epoch]

LegsInit ==
  /\ lpc = "call"
  /\ \E epsg \in LegFrames, geoid \in LegGeoids, epoch \in LegEpochs :
       largs = LegArgs(epsg, geoid, epoch)
  /\ \E found \in [LegKeys -> {"empty", "covering"}] : lworld = WorldOf(found)
  /\ lto = NONE /\ lfrom = NONE
  /\ RIdle /\ MIdle /\ HIdle /\ TIdle /\ FIdle /\ AIdle /\ CIdle

\* self._step_to_hub(epsg, ref_type, geoid, epoch)
LegToHub ==
  /\ lpc = "call"
  /\ lto' = step_to_hub(LegSelf, lworld, largs.epsg, largs.ref_type, largs.geoid, largs.epoch)
  /\ lpc' = "to_hub"
  /\ UNCHANGED <<largs, lworld, lfrom>>
  /\ UNCHANGED <<rvars, mvars, hvars, tvars, fvars, avars, cvars>>

\* self._step_from_hub(epsg, ref_type, geoid, epoch)
LegFromHub ==
  /\ lpc = "to_hub"
  /\ lfrom' = step_from_hub(LegSelf, lworld, largs.epsg, largs.ref_type, largs.geoid, largs.epoch)
  /\ lpc' = "both"
  /\ UNCHANGED <<largs, lworld, lto>>
  /\ UNCHANGED <<rvars, mvars, hvars, tvars, fvars, avars, cvars>>

LegsNext ==
  \/ LegToHub
  \/ LegFromHub

SpecLegs == LegsInit /\ [][LegsNext]_vars

(***************************************************************************)
(* Properties of the orthometric leg (SpecLegs)                            *)
(***************************************************************************)
\* the grid behind a (provider, name), all-zero when nothing is found
LegGrid(key) ==
  IF lworld[key] = <<>> THEN [r \in 1..1 |-> [c \in 1..2 |-> Zero]]
  ELSE load_and_interpolate(lworld[key], Region, 2, 1)

\* the supplied geoid, or the frame's default geoid
SuppliedOrDefault(epsg, geoid) ==
  IF geoid = NONE THEN CDN[CHOOSE i \in DOMAIN CDN : CDN[i].epsg = epsg].default_geoid ELSE geoid

GeoidKey(epsg, geoid) == <<Proj, SuppliedOrDefault(epsg, geoid)>>

\* C22: for an orthometric frame the to-hub leg is the geoid grid G of the
\* supplied geoid, or of the frame's default geoid when none is supplied,
\* and the from-hub leg with the same arguments is -G.
C22_GeoidLeg ==
  (lpc = "both" /\ largs.ref_type = "cdn" /\ GeoidKey(largs.epsg, largs.geoid) \in LegKeys) =>
    /\ lto.grid = LegGrid(GeoidKey(largs.epsg, largs.geoid))
    /\ lfrom.grid = GridNeg(lto.grid)


\* the centre of the i-th of n equal parts of the interval from a to b
CentreOf(a, b, n, i) == RatAdd(Int2Rat(a), Rat((2 * i - 1) * (b - a), 2 * n))

OnBoundary(y, x) ==
  \/ x = Int2Rat(target_region[1]) \/ x = Int2Rat(target_region[2])
  \/ y = Int2Rat(target_region[3]) \/ y = Int2Rat(target_region[4])

\* C23: the target sample coordinates of the mosaic are pixel centres: the
\* i-th sample longitude is the centre of the i-th of nx columns of width
\* (east - west) / nx, the sample latitudes are the centres of the ny rows
\* of height (north - south) / ny, and no sample lies on the region boundary.
C23_PixelCenters ==
  InLoop =>
    /\ \A i \in 1..mnx :
         TargetX(target_region, mnx)[i] = CentreOf(target_region[1], target_region[2], mnx, i)
    /\ Range(TargetY(target_region, mny)) =
         {CentreOf(target_region[3], target_region[4], mny, j) : j \in 1..mny}
    /\ \A r \in 1..mny, c \in 1..mnx :
         ~OnBoundary(TargetY(target_region, mny)[r], TargetX(target_region, mnx)[c])


\* the i-th file of source_files gets as far as the interpolator
HandedOver(i) == FileStatus(source_files[i], target_region) \in {"patch", "error"}

\* every cell of the standardized raster std holds the value that the raster
\* rr holds at the same longitude and latitude
SameField(rr, std) ==
  \A r \in DOMAIN std[2], c \in DOMAIN std[1] :
    \E r0 \in DOMAIN rr[2], c0 \in DOMAIN rr[1] :
      /\ rr[2][r0] = std[2][r] /\ rr[1][c0] = std[1][c]
      /\ rr[3][r0][c0] = std[3][r][c]

AscendingAfterFlip(rr, std) ==
  /\ StrictlyAscending(std[1])
  /\ StrictlyAscending(std[2])
  /\ SameField(rr, std)

\* C24: after the longitude normalization and the flip step both axes of a
\* source handed to the interpolator are strictly increasing and the data are
\* flipped with them, also for a source stored on 0..360 longitudes that
\* spans the 180 degree meridian.
C24_AscendingAxes ==
  InLoop =>
    \A i \in 1..(mi - 1) :
      HandedOver(i) =>
        AscendingAfterFlip(FillInternal(read_raster(source_files[i])),
                           FlipLats(FlipLons(FillInternal(read_raster(source_files[i])))))


\* the grid of points written for a reply of shape hshape = (rows, cols)
WrittenGrid == new_create_grid(<<Region[1], Region[3], Region[2], Region[4], hshape[2], hshape[1]>>)

\* the quoted tag that ends a line
QuotedTag(line) == SubSeq(line, MinOf({k \in DOMAIN line : line[k] = Quote}), Len(line))

\* the well-formed records of PointLines and the heights they carry
RecordHeight == (LinePnt00 :> Rat(5, 4)) @@ (LinePnt10 :> Rat(0 - 1, 2)) @@ (LinePnt01 :> Int2Rat(2))

\* the lines of the reply that carry the point marker, in file order
Records == SelectSeq(hlines, LAMBDA line : Contains(PntMarker, line))

\* the reply carries exactly one well-formed record per written tag
OnePerTag(written) ==
  /\ Len(Records) = Len(written)
  /\ \A m \in DOMAIN Records : Records[m] \in DOMAIN RecordHeight
  /\ \A k \in DOMAIN written :
       Cardinality({m \in DOMAIN Records : QuotedTag(Records[m]) = QuotedTag(written[k])}) = 1

\* the record of the reply that answers the written line
RecordFor(line) == Records[CHOOSE m \in DOMAIN Records : QuotedTag(Records[m]) = QuotedTag(line)]

\* the header echo of a verbose bridge reads no record
EchoSparesRecords ==
  hverbose => \A k \in 1..MinOf({HeaderEcho, Len(hlines)}) : ~Contains(PntMarker, hlines[k])

ReadAsTagged(written) ==
  /\ hpc = "returned"
  /\ \A i \in 0..(hshape[2] - 1), j \in 0..(hshape[1] - 1) :
       /\ QuotedTag(written[i * hshape[1] + j + 1]) =
            <<Quote>> \o PntMarker \o NatStr(i) \o <<"_">> \o NatStr(j) \o <<Quote>>
       /\ hgrid[j + 1][i + 1] = RecordHeight[RecordFor(written[i * hshape[1] + j + 1])]

InRowBand(y, r) ==
  /\ RatLe(WriterRowBand(target_region, mny, r).south, y)
  /\ RatLe(y, WriterRowBand(target_region, mny, r).north)

\* C26: the row orientation is the same everywhere: row r of the mosaic
\* grid lies in the latitude band of row r of the raster that
\* GridWriter.write makes of it (and of the rows of a north-up DEM to which
\* the grid is added), and the first row is the northernmost.
C26_RowZeroNorth ==
  InLoop =>
    /\ \A r \in 1..mny : InRowBand(TargetY(target_region, mny)[r], r)
    /\ \A r \in 2..mny : RatLt(TargetY(target_region, mny)[r], TargetY(target_region, mny)[1])


\* C27: whenever _read_grid returns a grid, every one of its rows * cols
\* cells was assigned from a parsed record whose tag addresses exactly that
\* cell: duplicate tags and tags with out-of-range or negative indices do
\* not stand in for a cell that no record addresses.
C27_EveryCellAssigned ==
  hpc = "returned" =>
    \A r \in 1..hshape[1], c \in 1..hshape[2] :
      \E k \in DOMAIN parsed : parsed[k] = <<c - 1, r - 1>>


\* the target sample of cell (r, c) lies in the extent of the i-th file
CoveredBy(i, r, c) ==
  Covers(source_files[i], TargetY(target_region, mny)[r], TargetX(target_region, mnx)[c])

\* C28: later sources fill gaps: for two sources that both overlap the
\* target, every target cell outside the extent of the first and inside the
\* extent of the second ends up with the second's interpolated value.
C28_LaterFillsGaps ==
  (/\ mpc = "done" /\ Len(source_files) = 2
   /\ FileStatus(source_files[1], target_region) = "patch"
   /\ FileStatus(source_files[2], target_region) = "patch") =>
    \A r \in 1..mny, c \in 1..mnx :
      (~CoveredBy(1, r, c) /\ CoveredBy(2, r, c)) => mosaic[r][c] = OutcomeAt(2).patch[r][c]


\* C29: frame resolution is idempotent: resolving str() of a resolved frame
\* gives the same frame, NotFound (None) included, so the frame and the
\* category that __init__ keeps are those of the command line's resolution.
C29_Idempotent ==
  rpc = "init" => rinit = [epsg |-> rframe, ref |-> rtype]

\* a display name resolved by the command line and again, as its
\* identifier, by __init__
C29_Witness ==
  /\ rpc = "init"
  /\ rquery = <<"n","a","v","d","8","8">>
  /\ rframe = 5703 /\ rinit = [epsg |-> 5703, ref |-> "cdn"]


\* the file does not get through the loop body: it is not there, it cannot
\* be read, or its processing raises
Failing(f) == FileStatus(f, target_region) \in {"missing", "unreadable", "error"}

C30_Step ==
  (mpc = "loop" /\ mi <= Len(source_files) /\ Failing(source_files[mi])) =>
    /\ mosaic' = mosaic
    /\ mi' = mi + 1
    /\ mpc' = "loop"

C30_Done ==
  mpc = "done" =>
    /\ mi = Len(source_files) + 1
    /\ mosaic = load_and_interpolate(SelectSeq(source_files, LAMBDA f : ~Failing(f)),
                                     target_region, mnx, mny)

\* C30: a failure on one source file (missing, unreadable, an exception in
\* filling, flipping or interpolating) does not abort the mosaic: the file
\* contributes nothing, the cells already filled keep their values, and the
\* remaining files are processed in order.
C30_FailureIsolated == []C30_Done /\ [][C30_Step]_vars

\* a file that raises, followed by a file that contributes
C30_Witness ==
  /\ mpc = "done" /\ Len(source_files) = 2
  /\ FileStatus(source_files[1], target_region) = "error"
  /\ FileStatus(source_files[2], target_region) = "patch"
  /\ mosaic = OutcomeAt(2).patch
  /\ \E r \in 1..mny, c \in 1..mnx : ~IsNaN(mosaic[r][c])

====
